---- MODULE Spec2Model ----
(***************************************************************************)
(* A model of the URL shortener of src/src/index.ts: the two handlers      *)
(* POST /api/shorten and GET /s/:shortId, the backend selection they run   *)
(* per request, and the two network stores (the Redis server reached       *)
(* through redisClient, the Vercel KV service reached through kv); and of  *)
(* the reverse-index backfill of src/src/migrations/url-reverse-index.ts,  *)
(* run by scripts/run-url-migration.ts.                                    *)
(*                                                                         *)
(* Every `await` of a handler is a suspension point: a handler is cut into *)
(* one action per awaited store call, so that requests interleave exactly  *)
(* where the event loop lets them.  A store call takes effect in the step  *)
(* in which its reply is delivered; a call that throws has had no effect.  *)
(* A request whose reply never comes (a crash, a hung call) is a request   *)
(* that takes no further step.                                             *)
(***************************************************************************)
EXTENDS Integers, Sequences, FiniteSets, TLC

VARIABLES
    redisClient,  \* "null" or "client": the module-level handle (index.ts:19-33)
    redis,        \* contents of the Redis server: key -> stored string
    kv,           \* contents of the Vercel KV service: key -> stored value
    reqs,         \* the requests received so far, in order of arrival
    mig           \* the backfill script scripts/run-url-migration.ts

vars == <<redisClient, redis, kv, reqs, mig>>

(***************************************************************************)
(* Bounds and input sets.                                                  *)
(***************************************************************************)
\* number of requests one behaviour receives
MaxReqs == 2

\* values of req.body.url that are strings; a missing field is the body <<>>
UrlStrings == {"https://example.com/a", "https://example.com/b", "not a url", ""}

\* request bodies: <<>> is a body without url, <<u>> a body with url u
Bodies == {<<>>} \cup {<<u>> : u \in UrlStrings}

\* results crypto.randomBytes(4).toString('hex') can give (two of the 2^32)
ShortIds == {"0a1b2c3d", "deadbeef"}

\* values of the :shortId parameter of GET /s/:shortId: the tokens, a token
\* no request generates, and a key of the reverse namespace
LookupIds ==
    ShortIds \cup {"ffffffff", "url:cd69b81ea00cc2798797293cbc92d643"}

\* what an awaited store call can do: be answered, or throw
Replies == {"ok", "throw"}

(***************************************************************************)
(* Pure functions of the source.                                           *)
(***************************************************************************)
\* generateShortId drawing from arbitrary strings instead of hex tokens
generateShortIdAnyString == ShortIds \cup {"url:cafe"}

\* generateShortId(): any 8-hex-digit token; no uniqueness check inside
generateShortId == ShortIds

\* hashUrl(url): the lowercase hex MD5 digest of the exact string
hashUrl(url) ==
    CASE url = "https://example.com/a" -> "cd69b81ea00cc2798797293cbc92d643"
      [] url = "https://example.com/b" -> "43cc12e82d91e0c52428768cbef58eb6"
      [] url = "not a url"             -> "d5038c8695ffcbffed05378ae103d831"
      [] url = ""                      -> "d41d8cd98f00b204e9800998ecf8427e"
      [] url = "http://localhost:3000" -> "87a70ce46ea04de7c28dd1e4da31904c"

\* the hash alone, without the 'url:' prefix
reverseKeyBare(url) == hashUrl(url)

\* `url:${urlHash}`
reverseKey(url) == "url:" \o hashUrl(url)

\* !url : the body has no url, or url is the empty string
IsFalsy(body) == body = <<>> \/ body[1] = ""

\* new URL(url) does not throw
IsValidUrl(url) == url \in {"https://example.com/a", "https://example.com/b"}

\* the UrlMapping object literal { originalUrl, shortId, createdAt }
UrlMapping(url, shortId, createdAt) ==
    [originalUrl |-> url, shortId |-> shortId, createdAt |-> createdAt]

\* new Date().toISOString(): time advances with the arrival of requests
Now == Len(reqs)

\* JSON.stringify(newMapping): the JSON text of a mapping
JSONstringify(mapping) == [json |-> mapping]

\* a raw string value, as a store holds it
Raw(s) == [str |-> s]

\* JSON.parse(text) returns normally (a hex token with a letter is no JSON)
JSONparses(value) == "json" \in DOMAIN value

\* JSON.parse(text)
JSONparse(value) == value.json

(***************************************************************************)
(* Stores: partial functions from keys to values.                          *)
(***************************************************************************)
EmptyStore == [k \in {} |-> Raw("")]

\* client.set(key, value)
Put(store, key, value) ==
    [k \in DOMAIN store \cup {key} |-> IF k = key THEN value ELSE store[k]]

\* key.startsWith('url:')
IsReverseKey(key) == Len(key) >= 4 /\ SubSeq(key, 1, 4) = "url:"

(***************************************************************************)
(* Requests.                                                               *)
(***************************************************************************)
\* the record of a request on arrival
NewRequest(op, body) ==
    [op |-> op, body |-> body, pc |-> "start", useRedis |-> FALSE,
     shortId |-> <<>>, createdAt |-> 0, status |-> 0, respShortId |-> <<>>,
     respIsExisting |-> "absent", location |-> <<>>,
     pings |-> 0, gets |-> 0, sets |-> 0, wrote |-> <<>>,
     read |-> "none", raced |-> FALSE,
     probed |-> <<>>, urlDatabase |-> <<>>, order |-> 0,
     quiet |-> \A i \in 1..Len(reqs) : reqs[i].pc = "done"]

\* the backend whose liveness probe a request is awaiting
Probing(req) == IF req.pc = "pingRedis" THEN "redis" ELSE "kv"

\* the awaited probe settles: its backend and its outcome, in probe order
Probed(req, reply) == [req EXCEPT !.probed = Append(@, <<Probing(req), reply>>)]

\* the store this request's probe selected
StoreOf(r) == IF reqs[r].useRedis THEN redis ELSE kv

\* the backfill script before its first run; cursorType is the type in
\* which the KV client hands back SCAN cursors
MigIdle(cursorType) ==
    [pc |-> "idle", useRedis |-> FALSE, keys |-> <<>>, i |-> 0,
     cursor |-> <<"number", 0>>, scanOrder |-> <<>>, url |-> <<>>, count |-> 0,
     threw |-> FALSE, cursorType |-> cursorType,
     runs |-> 0, outcome |-> <<>>, clean |-> <<>>,
     before |-> <<>>, after |-> <<>>]

Init ==
    /\ redisClient \in {"null", "client"}
    /\ redis = EmptyStore
    /\ kv = EmptyStore
    /\ reqs = <<>>
    /\ mig = MigIdle("number")

(***************************************************************************)
(* POST /api/shorten (index.ts:147-256).                                   *)
(***************************************************************************)
\* res.status(status).json(...) / res.json(...) / res.redirect(...)
Respond(req, status, shortId, isExisting, location) ==
    [req EXCEPT !.pc = "done", !.status = status, !.respShortId = shortId,
                !.respIsExisting = isExisting, !.location = location]

\* ShortenStart with the backend probe issued before the validation
ShortenStartProbeFirst(body) ==
    LET req == [NewRequest("shorten", body) EXCEPT !.pings = 1] IN
    IF IsFalsy(body) THEN Respond(req, 400, <<>>, "absent", <<>>)
    ELSE IF ~IsValidUrl(body[1]) THEN Respond(req, 400, <<>>, "absent", <<>>)
    ELSE [req EXCEPT !.pc = IF redisClient = "client" THEN "pingRedis" ELSE "pingKv"]

\* the handler up to its first await: validation, then the first probe
ShortenStart(body) ==
    LET req == NewRequest("shorten", body) IN
    IF IsFalsy(body) THEN Respond(req, 400, <<>>, "absent", <<>>)
    ELSE IF ~IsValidUrl(body[1]) THEN Respond(req, 400, <<>>, "absent", <<>>)
    ELSE [req EXCEPT !.pc = IF redisClient = "client" THEN "pingRedis" ELSE "pingKv",
                     !.pings = 1]

ShortenReceive(body) ==
    /\ Len(reqs) < MaxReqs
    /\ reqs' = Append(reqs, ShortenStart(body))
    /\ UNCHANGED <<redisClient, redis, kv>>

\* the catch block of the probe: the mapping goes into a local array only
MemoryFallback(req, shortId) ==
    [Respond(req, 200, <<shortId>>, "absent", <<>>)
        EXCEPT !.urlDatabase = <<UrlMapping(req.body[1], shortId, Now)>>]

\* AfterProbe with the managed KV service preferred: an answered probe
\* selects the KV service whichever backend was probed
AfterProbeSelectsKv(req) ==
    [req EXCEPT !.useRedis = FALSE, !.pc = "getRev", !.gets = 1]

\* the probe answered: the reverse key is read next
AfterProbe(req) ==
    [req EXCEPT !.useRedis = (req.pc = "pingRedis"), !.pc = "getRev", !.gets = 1]

\* await redisClient.ping() / await kvInstance.ping() is answered or throws.
\* redisClient.ping() resolves to 'PONG' or rejects, so with a client the
\* else branch (the KV probe) is not taken; a rejection of either probe
\* lands in the one catch block, the memory fallback.
ShortenPingReply(r, reply) ==
    /\ reqs[r].op = "shorten" /\ reqs[r].pc \in {"pingRedis", "pingKv"}
    /\ \/ /\ reply = "ok"
          /\ reqs' = [reqs EXCEPT ![r] = AfterProbe(Probed(reqs[r], reply))]
       \/ /\ reply = "throw"
          /\ \E s \in generateShortId :
                reqs' = [reqs EXCEPT
                            ![r] = MemoryFallback(Probed(reqs[r], reply), s)]
    /\ UNCHANGED <<redisClient, redis, kv>>

\* another shorten of the same URL on the same store has read the reverse
\* key as absent and has not yet finished its two writes
Overlaps(r) ==
    \E o \in 1..Len(reqs) :
        /\ o # r /\ reqs[o].op = "shorten" /\ reqs[o].body = reqs[r].body
        /\ reqs[o].useRedis = reqs[r].useRedis
        /\ reqs[o].pc \in {"setFwd", "setRev"}

\* the reverse key is absent: a new id, and the forward set is issued
CreatePath(req, shortId, raced) ==
    [req EXCEPT !.shortId = <<shortId>>, !.createdAt = Now, !.pc = "setFwd",
                !.sets = 1, !.read = "absent", !.raced = raced]

\* ExistingPath answering a newly generated id instead of the stored one
ExistingPathRegenerated(req, stored) ==
    [Respond(req, 200, <<CHOOSE s \in generateShortId : s # stored>>, "true", <<>>)
        EXCEPT !.read = "found"]

\* ExistingPath with the isExisting test lost: a hit creates a mapping anyway
ExistingPathCreates(req, stored) ==
    CreatePath(req, CHOOSE s \in generateShortId : s # stored, FALSE)

\* the reverse key is present: no write follows
ExistingPath(req, stored) ==
    [Respond(req, 200, <<stored>>, "true", <<>>) EXCEPT !.read = "found"]

\* Fail with the error swallowed: the handler goes on to its success
\* response with whatever shortId it holds
FailAnswersSuccess(req) == Respond(req, 200, req.shortId, "false", <<>>)

\* res.status(500).json({ error: ... }) of the outer catch
Fail(req) == Respond(req, 500, <<>>, "absent", <<>>)

\* await client.get(reverseKey) is answered or throws
ShortenGetReply(r, reply) ==
    /\ reqs[r].op = "shorten" /\ reqs[r].pc = "getRev"
    /\ LET key == reverseKey(reqs[r].body[1])
           store == StoreOf(r) IN
       \/ /\ reply = "ok" /\ key \in DOMAIN store
          /\ reqs' = [reqs EXCEPT ![r] = ExistingPath(reqs[r], store[key].str)]
       \/ /\ reply = "ok" /\ key \notin DOMAIN store
          /\ \E s \in generateShortId :
                reqs' = [reqs EXCEPT ![r] = CreatePath(reqs[r], s, Overlaps(r))]
       \/ /\ reply = "throw"
          /\ reqs' = [reqs EXCEPT ![r] = Fail(reqs[r])]
    /\ UNCHANGED <<redisClient, redis, kv>>

\* the value stored under the forward key: JSON text in Redis, the object in KV
ForwardValue(req) ==
    LET mapping == UrlMapping(req.body[1], req.shortId[1], req.createdAt) IN
    IF req.useRedis THEN JSONstringify(mapping) ELSE [obj |-> mapping]

\* client.set(key, value) on the store the request selected
SetOn(r, key, value) ==
    IF reqs[r].useRedis
    THEN redis' = Put(redis, key, value) /\ UNCHANGED kv
    ELSE kv' = Put(kv, key, value) /\ UNCHANGED redis

\* ReverseValue storing the URL where the shortId belongs
ReverseValueUrl(req) == Raw(req.body[1])

\* the value stored under the reverse key: the raw shortId
ReverseValue(req) == Raw(req.shortId[1])

\* the forward set succeeded: the reverse set is issued
AfterForwardSet(req) ==
    [req EXCEPT !.pc = "setRev", !.sets = 2, !.wrote = Append(@, req.shortId[1])]

\* ShortenSetFwdReply with a failed forward set swallowed: the reverse set
\* is issued all the same
ShortenSetFwdReplySwallow(r, reply) ==
    /\ reqs[r].op = "shorten" /\ reqs[r].pc = "setFwd"
    /\ \/ /\ reply = "ok"
          /\ SetOn(r, reqs[r].shortId[1], ForwardValue(reqs[r]))
          /\ reqs' = [reqs EXCEPT ![r] = AfterForwardSet(reqs[r])]
       \/ /\ reply = "throw"
          /\ reqs' = [reqs EXCEPT ![r] = [@ EXCEPT !.pc = "setRev", !.sets = 2]]
          /\ UNCHANGED <<redis, kv>>
    /\ UNCHANGED redisClient

\* await client.set(shortId, mapping) is answered or throws
ShortenSetFwdReply(r, reply) ==
    /\ reqs[r].op = "shorten" /\ reqs[r].pc = "setFwd"
    /\ \/ /\ reply = "ok"
          /\ SetOn(r, reqs[r].shortId[1], ForwardValue(reqs[r]))
          /\ reqs' = [reqs EXCEPT ![r] = AfterForwardSet(reqs[r])]
       \/ /\ reply = "throw"
          /\ reqs' = [reqs EXCEPT ![r] = Fail(reqs[r])]
          /\ UNCHANGED <<redis, kv>>
    /\ UNCHANGED redisClient

\* the requests whose reverse set has already written the key this request
\* writes, on the store this request writes
EarlierWriters(req) ==
    {o \in 1..Len(reqs) : /\ reqs[o].op = "shorten" /\ reqs[o].body = req.body
                          /\ reqs[o].useRedis = req.useRedis
                          /\ Len(reqs[o].wrote) = 2}

\* the reverse set succeeded: res.json({ shortUrl, isExisting: false })
AfterReverseSet(req) ==
    [Respond(req, 200, req.shortId, "false", <<>>)
        EXCEPT !.wrote = Append(@, reverseKey(req.body[1])),
               !.order = Cardinality(EarlierWriters(req)) + 1]

\* ShortenSetRevReply with one retry: a reverse set that throws is issued
\* once more before the handler gives up
ShortenSetRevReplyRetry(r, reply) ==
    /\ reqs[r].op = "shorten" /\ reqs[r].pc = "setRev"
    /\ \/ /\ reply = "ok"
          /\ SetOn(r, reverseKey(reqs[r].body[1]), ReverseValue(reqs[r]))
          /\ reqs' = [reqs EXCEPT ![r] = AfterReverseSet(reqs[r])]
       \/ /\ reply = "throw"
          /\ reqs' = [reqs EXCEPT ![r] = IF @.sets < 3 THEN [@ EXCEPT !.sets = 3]
                                         ELSE Fail(@)]
          /\ UNCHANGED <<redis, kv>>
    /\ UNCHANGED redisClient

\* await client.set(reverseKey, shortId) is answered or throws
ShortenSetRevReply(r, reply) ==
    /\ reqs[r].op = "shorten" /\ reqs[r].pc = "setRev"
    /\ \/ /\ reply = "ok"
          /\ SetOn(r, reverseKey(reqs[r].body[1]), ReverseValue(reqs[r]))
          /\ reqs' = [reqs EXCEPT ![r] = AfterReverseSet(reqs[r])]
       \/ /\ reply = "throw"
          /\ reqs' = [reqs EXCEPT ![r] = Fail(reqs[r])]
          /\ UNCHANGED <<redis, kv>>
    /\ UNCHANGED redisClient

(***************************************************************************)
(* GET /s/:shortId (index.ts:259-307).                                     *)
(***************************************************************************)
\* LookupStart with the probe result of an earlier request reused: the
\* handler goes to its get without a probe of its own
LookupStartCached(shortId) ==
    [NewRequest("lookup", <<shortId>>)
        EXCEPT !.pc = "get", !.gets = 1, !.useRedis = (redisClient = "client")]

\* the handler up to its first await: the first probe is issued
LookupStart(shortId) ==
    [NewRequest("lookup", <<shortId>>)
        EXCEPT !.pc = IF redisClient = "client" THEN "pingRedis" ELSE "pingKv",
               !.pings = 1]

LookupReceive(shortId) ==
    /\ Len(reqs) < MaxReqs
    /\ reqs' = Append(reqs, LookupStart(shortId))
    /\ UNCHANGED <<redisClient, redis, kv>>

\* the probe answered: the forward key is read next
AfterLookupProbe(req) ==
    [req EXCEPT !.useRedis = (req.pc = "pingRedis"), !.pc = "get", !.gets = 1]

\* await redisClient.ping() / await kvInstance.ping() is answered or throws
LookupPingReply(r, reply) ==
    /\ reqs[r].op = "lookup" /\ reqs[r].pc \in {"pingRedis", "pingKv"}
    /\ \/ /\ reply = "ok"
          /\ reqs' = [reqs EXCEPT ![r] = AfterLookupProbe(Probed(reqs[r], reply))]
       \/ /\ reply = "throw"
          /\ reqs' = [reqs EXCEPT ![r] = Fail(Probed(reqs[r], reply))]
    /\ UNCHANGED <<redisClient, redis, kv>>

\* a stored value is a forward mapping
IsMapping(value) == "json" \in DOMAIN value \/ "obj" \in DOMAIN value

\* mapping.originalUrl of the value the KV client returns: <<>> is undefined
OriginalUrlOf(value) ==
    IF "obj" \in DOMAIN value THEN <<value.obj.originalUrl>> ELSE <<>>

\* the handler after the get: parse, 404 when !mapping, redirect otherwise
Resolve(req, store) ==
    LET key == req.body[1]
        seen == IF key \notin DOMAIN store THEN "absent"
                ELSE IF IsMapping(store[key]) THEN "mapping" ELSE "other"
        out == [req EXCEPT !.read = seen] IN
    IF key \notin DOMAIN store THEN Respond(out, 404, <<>>, "absent", <<>>)
    ELSE IF req.useRedis
         THEN IF JSONparses(store[key])
              THEN Respond(out, 302, <<>>, "absent",
                           <<JSONparse(store[key]).originalUrl>>)
              ELSE Fail(out)
         ELSE Respond(out, 302, <<>>, "absent", OriginalUrlOf(store[key]))

\* StoreAfterLookup of a one-time link: the key is deleted once it is read
StoreAfterLookupExpire(store, key) == [k \in DOMAIN store \ {key} |-> store[k]]

\* the store after the lookup's get: the handler issues no set and no delete
StoreAfterLookup(store, key) == store

\* await client.get(shortId) is answered or throws
LookupGetReply(r, reply) ==
    /\ reqs[r].op = "lookup" /\ reqs[r].pc = "get"
    /\ \/ /\ reply = "ok"
          /\ reqs' = [reqs EXCEPT ![r] = Resolve(reqs[r], StoreOf(r))]
          /\ IF reqs[r].useRedis
             THEN redis' = StoreAfterLookup(redis, reqs[r].body[1]) /\ UNCHANGED kv
             ELSE kv' = StoreAfterLookup(kv, reqs[r].body[1]) /\ UNCHANGED redis
       \/ /\ reply = "throw"
          /\ reqs' = [reqs EXCEPT ![r] = Fail(reqs[r])]
          /\ UNCHANGED <<redis, kv>>
    /\ UNCHANGED redisClient

(***************************************************************************)
(* The specification.                                                      *)
(***************************************************************************)
Next ==
    \/ UNCHANGED mig /\ \E body \in Bodies : ShortenReceive(body)
    \/ UNCHANGED mig /\ \E r \in 1..Len(reqs), reply \in Replies : ShortenPingReply(r, reply)
    \/ UNCHANGED mig /\ \E r \in 1..Len(reqs), reply \in Replies : ShortenGetReply(r, reply)
    \/ UNCHANGED mig /\ \E r \in 1..Len(reqs), reply \in Replies : ShortenSetFwdReply(r, reply)
    \/ UNCHANGED mig /\ \E r \in 1..Len(reqs), reply \in Replies : ShortenSetRevReply(r, reply)
    \/ UNCHANGED mig /\ \E shortId \in LookupIds : LookupReceive(shortId)
    \/ UNCHANGED mig /\ \E r \in 1..Len(reqs), reply \in Replies : LookupPingReply(r, reply)
    \/ UNCHANGED mig /\ \E r \in 1..Len(reqs), reply \in Replies : LookupGetReply(r, reply)

Spec == Init /\ [][Next]_vars

\* await redisClient.ping() / await kvInstance.ping() on a backend that
\* never answers: the promise does not settle, no timer is set on it, and
\* the handler stays suspended at the await
ShortenPingHangs(r) ==
    /\ reqs[r].op = "shorten" /\ reqs[r].pc \in {"pingRedis", "pingKv"}
    /\ reqs' = [reqs EXCEPT ![r] = [@ EXCEPT !.pc = "suspended"]]
    /\ UNCHANGED <<redisClient, redis, kv>>

\* the service with backends that may leave a probe unanswered
NextHang ==
    \/ Next
    \/ UNCHANGED mig /\ \E r \in 1..Len(reqs) : ShortenPingHangs(r)

\* the event loop runs every handler whose awaited call has settled
SpecHang == Init /\ [][NextHang]_vars /\ WF_vars(NextHang)

(***************************************************************************)
(* The backfill: scripts/run-url-migration.ts runs migrateUrlReverseIndex  *)
(* of src/src/migrations/url-reverse-index.ts on the backend its probe     *)
(* selects.  As in the handlers, every awaited store call is one action.   *)
(* migrateVercelKvData is the getAllKeys version (lines 78-226); the KV    *)
(* client answers scan with the array [cursor, keys], so the branches for  *)
(* other result shapes (lines 132-155) are not taken, and since getAllKeys *)
(* catches every error of its loop, the manual key collection of lines     *)
(* 168-190 is never entered.                                               *)
(***************************************************************************)
\* number of times the script is run in one behaviour
MaxRuns == 2

\* number of keys the KV service returns per SCAN call
PageSize == 1

\* URLs of the mappings a store holds before the script runs
SeedUrls == {"https://example.com/a", "https://example.com/b"}

\* the enumerations of a key set, each key once: the order in which a
\* backend lists its keys is the backend's choice
Orders(keys) ==
    {order \in [1..Cardinality(keys) -> keys] :
        \A i, j \in 1..Cardinality(keys) : order[i] = order[j] => i = j}

\* a store as the shorten handler of this or of an earlier release leaves
\* it: forward mappings under some ids, and for some URLs a reverse entry
\* naming an id that is a forward key; "-" marks an absent key
SeedStore(useRedis, fwd, rev) ==
    LET ids == {id \in ShortIds : fwd[id] # "-"}
        urls == {u \in SeedUrls : rev[u] # "-"}
        value(id) == IF useRedis THEN JSONstringify(UrlMapping(fwd[id], id, 0))
                     ELSE [obj |-> UrlMapping(fwd[id], id, 0)] IN
    [k \in ids \cup {reverseKey(u) : u \in urls} |->
        IF k \in ids THEN value(k)
        ELSE Raw(rev[CHOOSE u \in urls : reverseKey(u) = k])]

SeedStores(useRedis) ==
    {SeedStore(useRedis, p[1], p[2]) :
        p \in {q \in [ShortIds -> SeedUrls \cup {"-"}]
                        \X [SeedUrls -> ShortIds \cup {"-"}] :
                  \A u \in SeedUrls : q[2][u] # "-" => q[1][q[2][u]] # "-"}}

\* FilterKeys with the prefix test lost: every listed key is kept
FilterKeysAll(keys) == keys

\* keys.filter(key => !key.startsWith('url:'))
FilterKeys(keys) == SelectSeq(keys, LAMBDA k : ~IsReverseKey(k))

\* the store the script's probe selected
MigStore == IF mig.useRedis THEN redis ELSE kv

\* MigSet as a set-if-absent: a key that already holds a value keeps it
MigSetIfAbsent(key, value) ==
    IF key \in DOMAIN MigStore
    THEN UNCHANGED <<redis, kv>>
    ELSE IF mig.useRedis
         THEN redis' = Put(redis, key, value) /\ UNCHANGED kv
         ELSE kv' = Put(kv, key, value) /\ UNCHANGED redis

\* client.set(key, value) on the store the script selected
MigSet(key, value) ==
    IF mig.useRedis
    THEN redis' = Put(redis, key, value) /\ UNCHANGED kv
    ELSE kv' = Put(kv, key, value) /\ UNCHANGED redis

\* cursor === 0 || cursor === '0'
IsZeroCursor(cursor) == cursor[2] = 0

\* the script ends (process.exit of runMigration): the run is counted, with
\* how it ended, whether a store call threw, and the store it leaves (the
\* store it found is recorded when it starts)
MigFinish(m, store, outcome) ==
    [m EXCEPT !.pc = "idle", !.runs = @ + 1,
              !.outcome = Append(@, outcome),
              !.clean = Append(@, ~m.threw /\ outcome = "completed"),
              !.after = Append(@, store)]

\* MigNextKey with a loop that ends after its first key
MigNextKeyFirstOnly(m, store) ==
    IF m.i < Len(m.keys) /\ m.i < 1
    THEN [m EXCEPT !.i = @ + 1, !.pc = "get", !.url = <<>>]
    ELSE MigFinish([m EXCEPT !.url = <<>>], store, "completed")

\* for (const shortId of shortIdKeys): the next key is read, or the loop
\* is over and the migration returns
MigNextKey(m, store) ==
    IF m.i < Len(m.keys)
    THEN [m EXCEPT !.i = @ + 1, !.pc = "get", !.url = <<>>]
    ELSE MigFinish([m EXCEPT !.url = <<>>], store, "completed")

\* runMigration() up to its first await: the first probe is issued
MigStart ==
    /\ mig.pc = "idle" /\ mig.runs < MaxRuns
    /\ mig' = [mig EXCEPT
                 !.pc = IF redisClient = "client" THEN "pingRedis" ELSE "pingKv",
                 !.useRedis = FALSE, !.keys = <<>>, !.i = 0,
                 !.cursor = <<"number", 0>>, !.scanOrder = <<>>, !.url = <<>>,
                 !.count = 0, !.threw = FALSE,
                 !.before = Append(@, IF redisClient = "client" THEN redis ELSE kv)]
    /\ UNCHANGED <<redisClient, redis, kv, reqs>>

\* the script's probe is answered (the key listing is issued) or throws
\* ('Failed to run migration', and the script exits)
MigPingReply(reply) ==
    /\ mig.pc \in {"pingRedis", "pingKv"}
    /\ \/ /\ reply = "ok"
          /\ mig' = [mig EXCEPT !.useRedis = (mig.pc = "pingRedis"),
                                !.pc = IF mig.pc = "pingRedis" THEN "keys" ELSE "scan"]
       \/ /\ reply = "throw"
          /\ mig' = MigFinish([mig EXCEPT !.threw = TRUE],
                              IF mig.pc = "pingRedis" THEN redis ELSE kv, "failed")
    /\ UNCHANGED <<redisClient, redis, kv, reqs>>

\* await redisClient.keys('*') is answered with the keys in some order, or
\* throws (the migration rethrows and the script exits)
MigKeysReply(reply) ==
    /\ mig.pc = "keys"
    /\ \/ /\ reply = "ok"
          /\ \E order \in Orders(DOMAIN redis) :
                mig' = MigNextKey([mig EXCEPT !.keys = FilterKeys(order)], redis)
       \/ /\ reply = "throw"
          /\ mig' = MigFinish([mig EXCEPT !.threw = TRUE], redis, "failed")
    /\ UNCHANGED <<redisClient, redis, kv, reqs>>

\* what the KV service answers to scan(cursor): [next cursor, keys].  A
\* scan from cursor 0 starts an iteration over the keys in an order of the
\* service's choice; a page holds the next PageSize keys of it and, as
\* SCAN allows, possibly a key already returned; the cursor is 0 when the
\* iteration is over
ScanPages(m) ==
    LET orders == IF IsZeroCursor(m.cursor) THEN Orders(DOMAIN kv)
                  ELSE {m.scanOrder}
        from == m.cursor[2]
        upto(order) == IF from + PageSize < Len(order) THEN from + PageSize
                       ELSE Len(order)
        next(order) == IF upto(order) = Len(order) THEN 0 ELSE upto(order) IN
    {[order |-> order,
      cursor |-> <<m.cursorType, next(order)>>,
      keys |-> again \o SubSeq(order, from + 1, upto(order))] :
        order \in orders,
        again \in {<<>>} \cup {<<m.scanOrder[j]>> : j \in 1..from}}

\* one round of getAllKeys' while loop: await kvInstance.scan(cursor) is
\* answered, the batch is filtered and appended, and the loop is done when
\* the cursor is zero; a scan that throws sets done as well
MigScanReply(reply) ==
    /\ mig.pc = "scan"
    /\ \/ /\ reply = "ok"
          /\ \E page \in ScanPages(mig) :
                LET m == [mig EXCEPT !.cursor = page.cursor,
                                     !.scanOrder = page.order,
                                     !.keys = @ \o FilterKeys(page.keys)] IN
                mig' = IF IsZeroCursor(page.cursor) THEN MigNextKey(m, kv) ELSE m
       \/ /\ reply = "throw"
          /\ mig' = MigNextKey([mig EXCEPT !.threw = TRUE], kv)
    /\ UNCHANGED <<redisClient, redis, kv, reqs>>

\* mapping.originalUrl of the value read, <<>> when the loop body skips the
\* key: no value, JSON.parse throws (Redis), or no originalUrl in it
MigOriginalUrl(store, key, useRedis) ==
    IF key \notin DOMAIN store THEN <<>>
    ELSE IF useRedis
         THEN IF JSONparses(store[key]) THEN <<JSONparse(store[key]).originalUrl>>
              ELSE <<>>
         ELSE OriginalUrlOf(store[key])

\* MigGetReply in which a value without a readable originalUrl ends the
\* migration instead of being skipped
MigGetReplyAbortOnCorrupt(reply) ==
    /\ mig.pc = "get"
    /\ \/ /\ reply = "ok"
          /\ LET url == MigOriginalUrl(MigStore, mig.keys[mig.i], mig.useRedis) IN
             mig' = IF url = <<>> THEN MigFinish(mig, MigStore, "failed")
                    ELSE [mig EXCEPT !.pc = "set", !.url = url]
       \/ /\ reply = "throw"
          /\ mig' = IF mig.useRedis
                    THEN MigFinish([mig EXCEPT !.threw = TRUE], redis, "failed")
                    ELSE MigNextKey([mig EXCEPT !.threw = TRUE], kv)
    /\ UNCHANGED <<redisClient, redis, kv, reqs>>

\* await client.get(shortId) is answered or throws: in migrateRedisData the
\* get is outside the inner try and ends the migration, in
\* migrateVercelKvData it is inside and the key is skipped
MigGetReply(reply) ==
    /\ mig.pc = "get"
    /\ \/ /\ reply = "ok"
          /\ LET url == MigOriginalUrl(MigStore, mig.keys[mig.i], mig.useRedis) IN
             mig' = IF url = <<>> THEN MigNextKey(mig, MigStore)
                    ELSE [mig EXCEPT !.pc = "set", !.url = url]
       \/ /\ reply = "throw"
          /\ mig' = IF mig.useRedis
                    THEN MigFinish([mig EXCEPT !.threw = TRUE], redis, "failed")
                    ELSE MigNextKey([mig EXCEPT !.threw = TRUE], kv)
    /\ UNCHANGED <<redisClient, redis, kv, reqs>>

\* MigReverseValue of an index that collects ids: the id is appended to the
\* entry the reverse key already holds
MigReverseValueAppend(m) ==
    LET key == reverseKey(m.url[1]) IN
    IF key \in DOMAIN MigStore
    THEN Raw(MigStore[key].str \o "," \o m.keys[m.i])
    ELSE Raw(m.keys[m.i])

\* the reverse entry the loop body writes for the key it is at
MigReverseValue(m) == Raw(m.keys[m.i])

\* await client.set(reverseKey, shortId) is answered or throws; a throw is
\* caught by the try of the loop body and the loop goes on
MigSetReply(reply) ==
    /\ mig.pc = "set"
    /\ \/ /\ reply = "ok"
          /\ MigSet(reverseKey(mig.url[1]), MigReverseValue(mig))
          /\ mig' = MigNextKey(
                       [mig EXCEPT !.count = IF mig.useRedis THEN @ ELSE @ + 1],
                       Put(MigStore, reverseKey(mig.url[1]), MigReverseValue(mig)))
       \/ /\ reply = "throw"
          /\ mig' = MigNextKey([mig EXCEPT !.threw = TRUE], MigStore)
          /\ UNCHANGED <<redis, kv>>
    /\ UNCHANGED <<redisClient, reqs>>

\* the script is run on a store that holds mappings, and no request is served
InitBackfill ==
    /\ redisClient \in {"null", "client"}
    /\ redis \in IF redisClient = "client" THEN SeedStores(TRUE) ELSE {EmptyStore}
    /\ kv \in IF redisClient = "null" THEN SeedStores(FALSE) ELSE {EmptyStore}
    /\ reqs = <<>>
    /\ mig \in {MigIdle(t) : t \in {"number", "string"}}

\* a key that is no reverse key and whose value is no mapping
CorruptKey == "badc0ffe"

\* a value JSON.parse throws on, and that the KV client hands back as a
\* string without an originalUrl
CorruptValue == Raw("{oops")

\* stores that hold forward mappings without reverse entries (as the
\* release before the reverse index left them) and one corrupt entry
CorruptStores(useRedis) ==
    {Put(SeedStore(useRedis, fwd, [u \in SeedUrls |-> "-"]), CorruptKey, CorruptValue) :
        fwd \in [ShortIds -> SeedUrls \cup {"-"}]}

\* the script is run on a store with a corrupt entry
InitCorrupt ==
    /\ redisClient \in {"null", "client"}
    /\ redis \in IF redisClient = "client" THEN CorruptStores(TRUE) ELSE {EmptyStore}
    /\ kv \in IF redisClient = "null" THEN CorruptStores(FALSE) ELSE {EmptyStore}
    /\ reqs = <<>>
    /\ mig = MigIdle("number")

NextBackfill ==
    \/ MigStart
    \/ \E reply \in Replies : MigPingReply(reply)
    \/ \E reply \in Replies : MigKeysReply(reply)
    \/ \E reply \in Replies : MigScanReply(reply)
    \/ \E reply \in Replies : MigGetReply(reply)
    \/ \E reply \in Replies : MigSetReply(reply)

SpecBackfill == InitBackfill /\ [][NextBackfill]_vars

SpecCorrupt == InitCorrupt /\ [][NextBackfill]_vars

\* runs of the script beside the live service
LiveRuns == 1

\* the migration script is run beside the live service: shorten requests for
\* valid URLs and the steps of the script interleave on the same stores
NextLive ==
    \/ UNCHANGED mig /\ \E u \in SeedUrls : ShortenReceive(<<u>>)
    \/ UNCHANGED mig /\ \E r \in 1..Len(reqs), reply \in Replies : ShortenPingReply(r, reply)
    \/ UNCHANGED mig /\ \E r \in 1..Len(reqs), reply \in Replies : ShortenGetReply(r, reply)
    \/ UNCHANGED mig /\ \E r \in 1..Len(reqs), reply \in Replies : ShortenSetFwdReply(r, reply)
    \/ UNCHANGED mig /\ \E r \in 1..Len(reqs), reply \in Replies : ShortenSetRevReply(r, reply)
    \/ mig.runs < LiveRuns /\ NextBackfill

SpecLive == Init /\ [][NextLive]_vars

(***************************************************************************)
(* Vocabulary of the properties.                                           *)
(***************************************************************************)
Requests == 1..Len(reqs)

\* request r took a step in this transition (it arrived, or its handler ran)
Stepped(r) == r > Len(reqs) \/ reqs'[r] # reqs[r]

\* a shorten request whose handler has returned a shortId to the caller
Returned(r) ==
    /\ reqs[r].op = "shorten" /\ reqs[r].pc = "done"
    /\ reqs[r].status = 200 /\ reqs[r].respShortId # <<>>

\* the forward keys of a store: the keys that hold a mapping
ForwardKeys(store) == {k \in DOMAIN store : IsMapping(store[k])}

\* the mapping a forward key holds
MappingAt(store, k) == IF "json" \in DOMAIN store[k] THEN store[k].json ELSE store[k].obj

\* what GET /s/:shortId answers now when its probe and its get are answered
LookupNow(shortId) ==
    LET req == AfterLookupProbe(LookupStart(shortId)) IN
    Resolve(req, IF req.useRedis THEN redis ELSE kv)

\* no request is in flight
AllDone == \A r \in Requests : reqs[r].pc = "done"

\* no shorten read the reverse key while another shorten of the same URL was
\* between its reverse-key read and its reverse-key write
NoOverlap == \A r \in Requests : ~reqs[r].raced

\* no shorten ended with its forward key written and its reverse key not
NoFailedReverseSet ==
    \A r \in Requests : reqs[r].pc = "done" => Len(reqs[r].wrote) # 1

\* every forward mapping (U, S) of a store has the reverse entry url:hash(U) -> S
ReverseIndexComplete(store) ==
    \A k \in ForwardKeys(store) :
        LET m == MappingAt(store, k) IN
        /\ reverseKey(m.originalUrl) \in DOMAIN store
        /\ store[reverseKey(m.originalUrl)] = Raw(k)

\* a store holds at most one forward mapping per URL string
OneIdPerUrl(store) ==
    \A k1, k2 \in ForwardKeys(store) :
        MappingAt(store, k1).originalUrl = MappingAt(store, k2).originalUrl => k1 = k2

(***************************************************************************)
(* C1.  For every valid URL U, two sequential shorten(U) calls with no     *)
(* other request in between return the same shortId, with isExisting=false *)
(* on the first call and isExisting=true on the second.  The first call is *)
(* one that did not find U already shortened; both calls returned an id.   *)
(***************************************************************************)
C1_SequentialPair(a, b) ==
    /\ b = a + 1 /\ Returned(a) /\ Returned(b)
    /\ reqs[a].body = reqs[b].body
    /\ reqs[a].quiet /\ reqs[b].quiet
    /\ reqs[a].respIsExisting # "true"

C1_Idempotence ==
    \A a, b \in Requests :
        C1_SequentialPair(a, b) =>
            /\ reqs[b].respShortId = reqs[a].respShortId
            /\ reqs[a].respIsExisting = "false"
            /\ reqs[b].respIsExisting = "true"

(***************************************************************************)
(* C2.  For every valid URL U, looking up the shortId returned by          *)
(* shorten(U) yields a mapping whose originalUrl is exactly U.             *)
(***************************************************************************)
C2_RoundTrip ==
    \A r \in Requests :
        Returned(r) =>
            /\ LookupNow(reqs[r].respShortId[1]).status = 302
            /\ LookupNow(reqs[r].respShortId[1]).location = reqs[r].body

(***************************************************************************)
(* C3.  shorten called with a missing or malformed URL answers 400 and     *)
(* performs no store access: no probe, no get, no set, and the stores are  *)
(* as they were.                                                           *)
(***************************************************************************)
C3_Invalid(req) ==
    req.op = "shorten" /\ (IsFalsy(req.body) \/ ~IsValidUrl(req.body[1]))

C3_RejectedWithoutStoreAccess ==
    [][\A r \in 1..Len(reqs') :
          C3_Invalid(reqs'[r]) =>
              /\ reqs'[r].pc = "done" /\ reqs'[r].status = 400
              /\ reqs'[r].respShortId = <<>>
              /\ reqs'[r].pings = 0 /\ reqs'[r].gets = 0 /\ reqs'[r].sets = 0
              /\ reqs'[r].wrote = <<>>
              /\ (Stepped(r) => redis' = redis /\ kv' = kv)]_vars

\* a malformed URL was rejected while a store held entries
C3_Witness ==
    \E r \in Requests :
        /\ C3_Invalid(reqs[r]) /\ reqs[r].status = 400
        /\ reqs[r].body = <<"not a url">>
        /\ DOMAIN redis \cup DOMAIN kv # {}

(***************************************************************************)
(* C4.  lookup of a shortId that has no forward mapping in the store       *)
(* answers NotFound (404), whatever the store holds.  Stated of the        *)
(* lookups whose get the store answered.                                   *)
(***************************************************************************)
C4_UnknownLookupNotFound ==
    \A r \in Requests :
        (reqs[r].op = "lookup" /\ reqs[r].read \in {"absent", "other"}) =>
            reqs[r].status = 404

(***************************************************************************)
(* C5.  lookup never issues a set or a delete: the stores after any step   *)
(* of a lookup request equal the stores before it, whether the lookup ends *)
(* in a redirect, in NotFound or in an error.                              *)
(***************************************************************************)
C5_LookupWritesNothing ==
    [][\A r \in 1..Len(reqs') :
          (reqs'[r].op = "lookup" /\ Stepped(r)) =>
              /\ redis' = redis /\ kv' = kv
              /\ reqs'[r].sets = 0 /\ reqs'[r].wrote = <<>>]_vars

\* a lookup found its mapping and redirected
C5_Witness ==
    \E r \in Requests :
        /\ reqs[r].op = "lookup" /\ reqs[r].status = 302
        /\ reqs[r].read = "mapping"
        /\ reqs[r].body[1] \in DOMAIN StoreOf(r)

(***************************************************************************)
(* C6.  When the reverse key url:hash(U) is present in the selected store  *)
(* and the get is answered, shorten(U) returns the stored shortId with     *)
(* isExisting=true and issues no set: the stores are unchanged.            *)
(***************************************************************************)
C6_ExistingPathNoWrite ==
    [][\A r \in Requests :
          (/\ reqs[r].op = "shorten" /\ reqs[r].pc = "getRev"
           /\ reqs'[r] # reqs[r]
           /\ reverseKey(reqs[r].body[1]) \in DOMAIN StoreOf(r)
           /\ reqs'[r].status # 500) =>
              /\ redis' = redis /\ kv' = kv
              /\ reqs'[r].pc = "done" /\ reqs'[r].status = 200
              /\ reqs'[r].respShortId = <<StoreOf(r)[reverseKey(reqs[r].body[1])].str>>
              /\ reqs'[r].respIsExisting = "true"
              /\ reqs'[r].sets = 0 /\ reqs'[r].wrote = <<>>]_vars

\* a shorten found the reverse key and answered the stored id
C6_Witness ==
    \E r \in Requests :
        /\ Returned(r) /\ reqs[r].read = "found"
        /\ reqs[r].respIsExisting = "true"

(***************************************************************************)
(* C7.  As claimed: after any sequence of completed shorten calls, every   *)
(* forward mapping (U, S) of a store has the reverse key url:hash(U), and  *)
(* it maps to S.                                                           *)
(***************************************************************************)
C7_ReverseIndexAfterCompletedCalls ==
    AllDone => ReverseIndexComplete(redis) /\ ReverseIndexComplete(kv)

(***************************************************************************)
(* C7, amended.  After completed shorten calls of which none ended with    *)
(* its forward key written and its reverse key not, and of which no two    *)
(* for the same URL overlapped between reverse-key read and reverse-key    *)
(* write, every forward mapping (U, S) has the reverse key url:hash(U),    *)
(* and it maps to S.                                                       *)
(***************************************************************************)
C7_ReverseIndexAfterCleanCalls ==
    (AllDone /\ NoOverlap /\ NoFailedReverseSet) =>
        ReverseIndexComplete(redis) /\ ReverseIndexComplete(kv)

\* two clean creates have left two forward mappings in one store
C7_Witness ==
    /\ AllDone /\ NoOverlap /\ NoFailedReverseSet
    /\ \E store \in {redis, kv} : Cardinality(ForwardKeys(store)) = 2

(***************************************************************************)
(* C8.  As claimed: in every execution in which no two shorten calls for   *)
(* the same URL overlap between the reverse-key read and the reverse-key   *)
(* write, a store holds at most one forward mapping per URL string.        *)
(***************************************************************************)
C8_OneIdPerUrlWithoutOverlap ==
    NoOverlap => OneIdPerUrl(redis) /\ OneIdPerUrl(kv)

(***************************************************************************)
(* C8, amended.  In every execution in which no two shorten calls for the  *)
(* same URL overlap between the reverse-key read and the reverse-key write *)
(* and in which no shorten ended with its forward key written and its      *)
(* reverse key not, a store holds at most one forward mapping per URL.     *)
(***************************************************************************)
C8_OneIdPerUrlWithoutOverlapOrPartialWrite ==
    (NoOverlap /\ NoFailedReverseSet) => OneIdPerUrl(redis) /\ OneIdPerUrl(kv)

\* the same URL was shortened twice, one call after the other, and the
\* second call was answered from the reverse index
C8_Witness ==
    /\ NoOverlap /\ NoFailedReverseSet
    /\ \E a, b \in Requests :
          /\ a < b /\ Returned(a) /\ Returned(b)
          /\ reqs[a].body = reqs[b].body
          /\ reqs[a].read = "absent" /\ reqs[b].read = "found"
          /\ ForwardKeys(StoreOf(a)) # {}

(***************************************************************************)
(* C9.  A generated shortId that is already occupied as a forward key is   *)
(* detected and regenerated, so a forward mapping, once written, is never  *)
(* overwritten or changed by a later shorten call.                         *)
(***************************************************************************)
C9_Kept(store, after) ==
    \A k \in ForwardKeys(store) : k \in DOMAIN after /\ after[k] = store[k]

C9_ForwardMappingNeverOverwritten ==
    [][C9_Kept(redis, redis') /\ C9_Kept(kv, kv')]_vars

(***************************************************************************)
(* C10.  In the create path the reverse-key set is issued only after the   *)
(* forward-key set has completed successfully: of one request, the forward *)
(* write always precedes the reverse write.                                *)
(***************************************************************************)
C10_ForwardBeforeReverse ==
    \A r \in Requests :
        reqs[r].op = "shorten" =>
            /\ reqs[r].sets = 2 =>
                  Len(reqs[r].wrote) >= 1 /\ reqs[r].wrote[1] = reqs[r].shortId[1]
            /\ \A i \in 1..Len(reqs[r].wrote) :
                  IsReverseKey(reqs[r].wrote[i]) =>
                      i = 2 /\ reqs[r].wrote[1] = reqs[r].shortId[1]

\* a create has written both of its keys
C10_Witness ==
    \E r \in Requests :
        /\ Returned(r) /\ reqs[r].respIsExisting = "false"
        /\ reqs[r].wrote = <<reqs[r].shortId[1], reverseKey(reqs[r].body[1])>>

(***************************************************************************)
(* C11.  Two concurrent shorten calls for the same URL that both read the  *)
(* reverse key before either writes it both take the create path; once     *)
(* both have returned, the store holds two distinct shortIds whose forward *)
(* mappings hold that URL, and the reverse key holds the shortId of the    *)
(* call whose reverse-key write came last.  Stated of two such calls that  *)
(* are the only writers of their store.                                    *)
(***************************************************************************)
\* a and b shortened the same URL on the same store and both read the
\* reverse key as absent: neither had written it when the other read it
C11_RacingPair(a, b) ==
    /\ a # b /\ Returned(a) /\ Returned(b)
    /\ reqs[a].body = reqs[b].body /\ reqs[a].useRedis = reqs[b].useRedis
    /\ reqs[a].read = "absent" /\ reqs[b].read = "absent"
    /\ \A c \in Requests \ {a, b} :
          reqs[c].wrote = <<>> \/ reqs[c].useRedis # reqs[a].useRedis

\* both calls created: each answered the id it generated, isExisting=false
C11_BothCreate(a, b) ==
    \A r \in {a, b} :
        /\ reqs[r].respIsExisting = "false"
        /\ reqs[r].respShortId = reqs[r].shortId
        /\ Len(reqs[r].wrote) = 2

\* the reverse key holds the id of the call whose reverse write came last
C11_LastWriterWins(a, b) ==
    LET last == IF reqs[a].order > reqs[b].order THEN a ELSE b IN
    /\ reverseKey(reqs[a].body[1]) \in DOMAIN StoreOf(a)
    /\ StoreOf(a)[reverseKey(reqs[a].body[1])] = Raw(reqs[last].shortId[1])

\* both ids are forward keys whose mappings hold the URL
C11_BothResolve(a, b) ==
    \A r \in {a, b} :
        /\ reqs[r].shortId[1] \in ForwardKeys(StoreOf(a))
        /\ MappingAt(StoreOf(a), reqs[r].shortId[1]).originalUrl = reqs[a].body[1]

C11_RaceLeavesTwoIds ==
    \A a, b \in Requests :
        C11_RacingPair(a, b) =>
            /\ C11_BothCreate(a, b)
            /\ reqs[a].shortId # reqs[b].shortId
            /\ C11_BothResolve(a, b)
            /\ C11_LastWriterWins(a, b)

(***************************************************************************)
(* C12.  Under every interleaving of concurrent shorten calls no data is   *)
(* corrupted: each shortId a network store returned to a caller resolves,  *)
(* from the moment it is returned and in every later state, to exactly the *)
(* URL that caller submitted.                                              *)
(***************************************************************************)
\* a shorten answered from a network store (not from the memory fallback)
C12_Served(r) == Returned(r) /\ reqs[r].read \in {"absent", "found"}

\* lookup of the id returned to r redirects to the URL r submitted
C12_Resolves(r) ==
    /\ LookupNow(reqs[r].respShortId[1]).status = 302
    /\ LookupNow(reqs[r].respShortId[1]).location = reqs[r].body

C12_ReturnedIdsKeepResolving ==
    \A r \in Requests : C12_Served(r) => C12_Resolves(r)

(***************************************************************************)
(* C13.  If the forward-key set of a shorten succeeds and its reverse-key  *)
(* set fails, the forward mapping remains without a reverse entry, lookup  *)
(* of that shortId still redirects to the URL, and the next shorten for    *)
(* the same URL creates a second, different shortId with isExisting=false. *)
(* Stated of a failed call that ran alone and of the call that follows it  *)
(* and is answered from the same store.                                    *)
(***************************************************************************)
\* request a wrote its forward key, its reverse set threw, and it ran alone
C13_PartialWrite(a) ==
    /\ reqs[a].op = "shorten" /\ reqs[a].pc = "done" /\ reqs[a].status = 500
    /\ Len(reqs[a].wrote) = 1 /\ reqs[a].quiet

\* no request other than a has written to the store a wrote to
C13_OnlyWriter(a) ==
    \A c \in Requests \ {a} :
        reqs[c].wrote = <<>> \/ reqs[c].useRedis # reqs[a].useRedis

\* the forward mapping is there, the reverse key is not, lookup redirects
C13_ForwardWithoutReverse(a) ==
    /\ reqs[a].shortId[1] \in ForwardKeys(StoreOf(a))
    /\ MappingAt(StoreOf(a), reqs[a].shortId[1]).originalUrl = reqs[a].body[1]
    /\ reverseKey(reqs[a].body[1]) \notin DOMAIN StoreOf(a)
    /\ LookupNow(reqs[a].shortId[1]).status = 302
    /\ LookupNow(reqs[a].shortId[1]).location = reqs[a].body

\* b is the next shorten of the same URL, answered from the same store, and
\* no request arrived while b was in flight
C13_NextShorten(a, b) ==
    /\ b = a + 1 /\ reqs[b].quiet /\ C12_Served(b)
    /\ (b < Len(reqs) => reqs[b + 1].quiet)
    /\ reqs[b].body = reqs[a].body /\ reqs[b].useRedis = reqs[a].useRedis

C13_PartialFailureLeavesSecondId ==
    \A a \in Requests :
        C13_PartialWrite(a) =>
            /\ C13_OnlyWriter(a) => C13_ForwardWithoutReverse(a)
            /\ \A b \in Requests :
                  C13_NextShorten(a, b) =>
                      /\ reqs[b].respIsExisting = "false"
                      /\ reqs[b].respShortId # reqs[a].shortId

(***************************************************************************)
(* Vocabulary of the backend selection.                                    *)
(***************************************************************************)
\* the request has issued a liveness probe
HasProbed(r) == reqs[r].pings >= 1

\* the backend of the first probe the request issued
FirstProbed(r) ==
    IF reqs[r].probed # <<>> THEN reqs[r].probed[1][1] ELSE Probing(reqs[r])

\* the request's probe threw
ProbeThrew(r) ==
    \E i \in 1..Len(reqs[r].probed) : reqs[r].probed[i][2] = "throw"

\* the request went on to a network store: it has issued a get
OnStore(r) == reqs[r].gets >= 1

C15_SecondBackendProbed ==
    \A r \in Requests :
        (/\ redisClient = "client" /\ reqs[r].pc = "done"
         /\ reqs[r].probed # <<>> /\ reqs[r].probed[1][2] = "throw") =>
            /\ Len(reqs[r].probed) = 2
            /\ reqs[r].probed[2][1] # reqs[r].probed[1][1]
            /\ reqs[r].probed[2][2] = "ok" =>
                  OnStore(r) /\ reqs[r].urlDatabase = <<>>

(***************************************************************************)
(* C16.  When every network backend is unreachable, no request is rejected *)
(* for that reason: shorten and lookup are both served from the in-process *)
(* fallback instead of answering a storage-unavailable error.  Stated of a *)
(* process whose only network backend is the KV service, and of the        *)
(* requests whose KV probe threw.                                          *)
(***************************************************************************)
C16_NoRequestRejected ==
    \A r \in Requests :
        (/\ redisClient = "null" /\ reqs[r].pc = "done"
         /\ reqs[r].probed = <<<<"kv", "throw">>>>) =>
            /\ reqs[r].status # 500
            /\ reqs[r].op = "shorten" => reqs[r].status = 200
            /\ reqs[r].op = "lookup" => reqs[r].status \in {302, 404}

(***************************************************************************)
(* C17.  A mapping written by shorten while the in-process fallback is     *)
(* active is kept in process-wide memory and stays visible to the later    *)
(* requests of the process: the array a later fallback shorten works on    *)
(* holds it, and a later lookup of its shortId redirects to its URL.       *)
(* Stated of a later request that arrived after the shorten was answered   *)
(* and whose own probe threw as well.                                      *)
(***************************************************************************)
\* b arrived after a had put its mapping in urlDatabase, and b's probe threw
C17_LaterUnderFallback(a, b) ==
    /\ a < b /\ reqs[a].urlDatabase # <<>>
    /\ reqs[b].quiet /\ reqs[b].pc = "done" /\ ProbeThrew(b)

C17_FallbackMappingVisible ==
    \A a, b \in Requests :
        C17_LaterUnderFallback(a, b) =>
            /\ reqs[b].op = "shorten" =>
                  \E i \in 1..Len(reqs[b].urlDatabase) :
                      reqs[b].urlDatabase[i] = reqs[a].urlDatabase[1]
            /\ (reqs[b].op = "lookup" /\ reqs[b].body = reqs[a].respShortId) =>
                  reqs[b].status = 302 /\ reqs[b].location = reqs[a].body

(***************************************************************************)
(* C18.  Every shorten and every lookup request runs its own liveness      *)
(* probe before its first get or set: a request that has issued a get or a *)
(* set has issued exactly one probe of its own and that probe answered.    *)
(* The selection is the request's own and fixed: the backend is the one    *)
(* its probe answered from, it does not change once the request is on the  *)
(* store, and every step of the request leaves the other store untouched.  *)
(***************************************************************************)
C18_ProbeBeforeAccess ==
    [][\A r \in 1..Len(reqs') :
          /\ reqs'[r].gets + reqs'[r].sets >= 1 =>
                /\ reqs'[r].pings = 1
                /\ reqs'[r].probed =
                      <<<<IF reqs'[r].useRedis THEN "redis" ELSE "kv", "ok">>>>
          /\ (r <= Len(reqs) /\ reqs[r].gets >= 1) =>
                reqs'[r].useRedis = reqs[r].useRedis
          /\ (r <= Len(reqs) /\ Stepped(r)) =>
                IF reqs[r].useRedis THEN kv' = kv ELSE redis' = redis]_vars

\* two requests each ran a probe of their own, and the second one wrote
C18_Witness ==
    /\ Len(reqs) = 2
    /\ \A r \in Requests : reqs[r].pings = 1 /\ reqs[r].gets = 1
    /\ reqs[1].op = "shorten" /\ reqs[1].status = 200
    /\ reqs[2].op = "shorten" /\ reqs[2].sets = 2 /\ Len(reqs[2].wrote) = 2

(***************************************************************************)
(* Vocabulary of the backfill.                                             *)
(***************************************************************************)
\* the keys of the reverse namespace in a store
ReverseKeys(store) == {k \in DOMAIN store : IsReverseKey(k)}

\* the keys whose value differs between two states of a store
Changed(before, after) ==
    {k \in DOMAIN before \cup DOMAIN after :
        k \notin DOMAIN before \/ k \notin DOMAIN after \/ after[k] # before[k]}

(***************************************************************************)
(* C19.  Backfill never treats a key that starts with 'url:' as a forward  *)
(* key, with the full key list of Redis and with the paginated scan of     *)
(* Vercel KV alike: no such key is in the list of keys it reads as         *)
(* mappings, and every entry it writes is a reverse entry whose value is a *)
(* key outside the reverse namespace.                                      *)
(***************************************************************************)
C19_ReverseKeysNeverProcessed ==
    [][/\ \A i \in 1..Len(mig'.keys) : ~IsReverseKey(mig'.keys[i])
       /\ \A k \in Changed(redis, redis') \cup Changed(kv, kv') :
             LET after == IF k \in Changed(redis, redis') THEN redis' ELSE kv' IN
             /\ k \in DOMAIN after /\ IsReverseKey(k)
             /\ "str" \in DOMAIN after[k] /\ ~IsReverseKey(after[k].str)
             /\ after[k].str = mig.keys[mig.i]]_vars

\* the paginated scan went over a KV store that held reverse entries and
\* forward mappings, and the first of two forward keys is being processed
C19_Witness ==
    /\ ~mig.useRedis /\ mig.pc = "set" /\ mig.runs = 0
    /\ Len(mig.keys) = 2 /\ mig.i = 1
    /\ ReverseKeys(kv) # {}

(***************************************************************************)
(* C20.  As claimed: backfill is idempotent.  Running it twice on a store, *)
(* with no other operation in between, leaves the store in the state in    *)
(* which the first run left it.  Stated of two runs that both completed    *)
(* and in which no store call threw.                                       *)
(***************************************************************************)
\* the script has run twice, and both runs completed without a failed call
C20_TwoCleanRuns ==
    /\ mig.runs >= 2 /\ mig.clean[1] /\ mig.clean[2]

CleanRun(n) == n <= mig.runs /\ mig.clean[n]

\* the URLs that have a forward mapping in a store
UrlsOf(store) == {MappingAt(store, k).originalUrl : k \in ForwardKeys(store)}

\* the shortIds whose forward mapping in a store holds the URL
IdsOf(store, url) ==
    {k \in ForwardKeys(store) : MappingAt(store, k).originalUrl = url}

(***************************************************************************)
(* C21.  As claimed: given a store with N forward mappings and no reverse  *)
(* entries, one backfill run creates exactly N reverse entries.  Stated of *)
(* a run that completed and in which no store call threw.                  *)
(***************************************************************************)
\* the first run was clean and found forward mappings and no reverse entry
C21_ForwardOnlyRun ==
    /\ CleanRun(1) /\ ReverseKeys(mig.before[1]) = {}
    /\ ForwardKeys(mig.before[1]) # {}

C21_OneEntryPerMapping ==
    C21_ForwardOnlyRun =>
        Cardinality(ReverseKeys(mig.after[1])) =
            Cardinality(ForwardKeys(mig.before[1]))

(***************************************************************************)
(* C21, amended.  Given a store with forward mappings and no reverse       *)
(* entries, one backfill run in which no store call throws creates exactly *)
(* one reverse entry per distinct URL among the forward mappings, naming a *)
(* shortId of that URL: N entries for N mappings only when the N URLs      *)
(* differ.  The forward mappings are left as they were.                    *)
(***************************************************************************)
C21_OneEntryPerUrl ==
    C21_ForwardOnlyRun =>
        /\ ReverseKeys(mig.after[1]) =
              {reverseKey(u) : u \in UrlsOf(mig.before[1])}
        /\ \A u \in UrlsOf(mig.before[1]) :
              \E id \in IdsOf(mig.before[1], u) :
                  mig.after[1][reverseKey(u)] = Raw(id)
        /\ \A k \in ForwardKeys(mig.before[1]) :
              mig.after[1][k] = mig.before[1][k]

\* a clean run found two forward mappings of two URLs and no reverse entry
C21_Witness ==
    /\ C21_ForwardOnlyRun
    /\ Cardinality(ForwardKeys(mig.before[1])) = 2
    /\ Cardinality(UrlsOf(mig.before[1])) = 2
    /\ Cardinality(ReverseKeys(mig.after[1])) = 2

(***************************************************************************)
(* C22.  Backfill over the cursor-paginated backend drains the scan to     *)
(* completion: once it takes the enumeration as complete (it processes     *)
(* keys, or it has returned as completed), every forward key that was in   *)
(* the KV store throughout the run is in its key list; a scan call that    *)
(* fails part-way is not treated as a complete enumeration.                *)
(***************************************************************************)
\* the keys the run has collected
Listed == {mig.keys[i] : i \in 1..Len(mig.keys)}

\* the current or last run is on the KV service and past its enumeration
C22_EnumerationOver ==
    /\ redisClient = "null" /\ mig.before # <<>>
    /\ \/ mig.pc \in {"get", "set"}
       \/ mig.pc = "idle" /\ mig.outcome[mig.runs] = "completed"

C22_ScanDrained ==
    C22_EnumerationOver =>
        \A k \in DOMAIN mig.before[Len(mig.before)] :
            ~IsReverseKey(k) => k \in Listed

(***************************************************************************)
(* C23.  When the paginated scan returns the same forward key on more than *)
(* one page, backfill deduplicates: the collected key list holds each key  *)
(* once, and a run on the KV service writes at most one reverse entry per  *)
(* collected key.                                                          *)
(***************************************************************************)
C23_KeysCollectedOnce ==
    /\ \A i, j \in 1..Len(mig.keys) : mig.keys[i] = mig.keys[j] => i = j
    /\ mig.count <= Cardinality(Listed)

(***************************************************************************)
(* C24.  After backfill completes, every URL that has at least one valid   *)
(* forward mapping has its reverse key, holding a shortId whose forward    *)
(* mapping has that URL, whatever the reverse key held before the run      *)
(* (nothing, or a value that is then overwritten).                         *)
(***************************************************************************)
\* in store, the reverse key of url names a forward mapping of url
Indexed(store, url) ==
    /\ reverseKey(url) \in DOMAIN store
    /\ \E id \in IdsOf(store, url) : store[reverseKey(url)] = Raw(id)

\* the original statement: for every run that ended as completed
C24_CompletedRunIndexesEveryUrl ==
    \A n \in 1..mig.runs :
        mig.outcome[n] = "completed" =>
            \A u \in UrlsOf(mig.after[n]) : Indexed(mig.after[n], u)

\* the same for the completed runs in which no store call failed
C24_CleanRunIndexesEveryUrl ==
    \A n \in 1..mig.runs :
        CleanRun(n) => \A u \in UrlsOf(mig.after[n]) : Indexed(mig.after[n], u)

\* a clean first run that found one URL without a reverse key and another
\* whose reverse key named the shortId of a different URL
C24_Witness ==
    /\ CleanRun(1)
    /\ \E u, v \in UrlsOf(mig.before[1]) :
          /\ reverseKey(u) \notin DOMAIN mig.before[1]
          /\ reverseKey(v) \in DOMAIN mig.before[1]
          /\ ~Indexed(mig.before[1], v)
          /\ Indexed(mig.after[1], u) /\ Indexed(mig.after[1], v)

(***************************************************************************)
(* C25.  During backfill a forward key whose stored value cannot be        *)
(* deserialized or is not a valid mapping is skipped and every other       *)
(* forward key is still processed: a run on a store with a corrupt entry,  *)
(* in which no store call fails, completes, leaves the corrupt entry as it *)
(* was, derives no reverse key from it, and indexes every URL that has a   *)
(* valid forward mapping.                                                  *)
(***************************************************************************)
\* the keys of store that are no reverse keys and hold no mapping
CorruptKeys(store) == {k \in DOMAIN store : ~IsReverseKey(k) /\ ~IsMapping(store[k])}

\* the last run has ended, found a corrupt entry, and none of its store
\* calls threw
C25_RunOverCorruptEntry ==
    /\ mig.pc = "idle" /\ mig.runs >= 1 /\ ~mig.threw
    /\ CorruptKeys(mig.before[mig.runs]) # {}

C25_CorruptEntrySkipped ==
    C25_RunOverCorruptEntry =>
        LET before == mig.before[mig.runs]
            after == mig.after[mig.runs] IN
        /\ mig.outcome[mig.runs] = "completed"
        /\ \A k \in CorruptKeys(before) : k \in DOMAIN after /\ after[k] = before[k]
        /\ \A k \in ForwardKeys(before) : k \in DOMAIN after /\ after[k] = before[k]
        /\ \A u \in UrlsOf(before) : Indexed(after, u)
        /\ ReverseKeys(after) = ReverseKeys(before) \cup {reverseKey(u) : u \in UrlsOf(before)}

\* the corrupt entry was listed first, and two mappings of different URLs
\* after it were indexed by the run
C25_Witness ==
    /\ C25_RunOverCorruptEntry
    /\ Len(mig.keys) = 3 /\ mig.keys[1] = CorruptKey
    /\ Cardinality(UrlsOf(mig.before[mig.runs])) = 2
    /\ ReverseKeys(mig.before[mig.runs]) = {}
    /\ Cardinality(ReverseKeys(mig.after[mig.runs])) = 2

(***************************************************************************)
(* C26.  A get or set that fails inside shorten or lookup is surfaced to   *)
(* the caller as an error result and is never reissued: the step in which  *)
(* an awaited store call fails ends the request with status 500 and        *)
(* leaves the stores alone; a request that has been answered takes no      *)
(* further step; one shorten request issues at most one get and two sets   *)
(* (the forward set, then the reverse set), one lookup at most one get and *)
(* no set.                                                                 *)
(***************************************************************************)
\* the positions at which a handler awaits a get or a set
StorePcs == {"getRev", "setFwd", "setRev", "get"}

\* request r takes a step in which its awaited store call fails: the call
\* has read nothing and written nothing
CallFails(r) ==
    /\ reqs[r].pc \in StorePcs /\ reqs'[r] # reqs[r]
    /\ reqs'[r].read = reqs[r].read /\ reqs'[r].wrote = reqs[r].wrote

C26_FailureSurfacedOnce ==
    [][\A r \in 1..Len(reqs) :
          /\ reqs[r].pc = "done" => reqs'[r] = reqs[r]
          /\ CallFails(r) =>
                /\ reqs'[r].pc = "done" /\ reqs'[r].status = 500
                /\ reqs'[r].gets = reqs[r].gets /\ reqs'[r].sets = reqs[r].sets
                /\ redis' = redis /\ kv' = kv
          /\ reqs'[r].gets <= 1
          /\ reqs'[r].sets <= IF reqs'[r].op = "shorten" THEN 2 ELSE 0
          /\ reqs'[r].gets >= reqs[r].gets /\ reqs'[r].sets >= reqs[r].sets
          /\ reqs'[r].sets <= Len(reqs'[r].wrote) + 1]_vars

\* a shorten whose reverse set failed after its forward set succeeded, and
\* a lookup whose get failed, both answered with 500
C26_Witness ==
    /\ \E r \in Requests :
          /\ reqs[r].op = "shorten" /\ reqs[r].pc = "done" /\ reqs[r].status = 500
          /\ reqs[r].gets = 1 /\ reqs[r].sets = 2 /\ Len(reqs[r].wrote) = 1
    /\ \E r \in Requests :
          /\ reqs[r].op = "lookup" /\ reqs[r].pc = "done" /\ reqs[r].status = 500
          /\ reqs[r].gets = 1 /\ reqs[r].read = "none"

(***************************************************************************)
(* C27.  If a backend's liveness probe never answers, the probe is treated *)
(* as a reachability failure after a bounded wait and the selector falls   *)
(* back, so every shorten request eventually receives a response.          *)
(***************************************************************************)
C27_EveryShortenAnswered ==
    \A r \in 1..MaxReqs :
        (r <= Len(reqs) /\ reqs[r].op = "shorten")
            ~> (r <= Len(reqs) /\ reqs[r].pc = "done")

(***************************************************************************)
(* C28.  For any two byte-for-byte different valid URLs U1 and U2,         *)
(* shorten(U1) and shorten(U2) return different shortIds.                  *)
(***************************************************************************)
C28_DifferentUrlsDifferentIds ==
    \A a, b \in Requests :
        (Returned(a) /\ Returned(b) /\ reqs[a].body # reqs[b].body) =>
            reqs[a].respShortId # reqs[b].respShortId

(***************************************************************************)
(* C29.  Every key written by shorten or backfill is either a forward key  *)
(* equal to the raw shortId (8 hex digits, holding the mapping of that     *)
(* shortId) or a reverse key equal to 'url:' followed by the hex digest of *)
(* a URL (holding a raw shortId); no generated shortId starts with 'url:', *)
(* so the forward keys and the reverse keys of a store are disjoint in     *)
(* every reachable state.  Stated of stores that start empty, so that      *)
(* every key in them was written by shorten or by backfill.                *)
(***************************************************************************)
HexDigits ==
    {"0", "1", "2", "3", "4", "5", "6", "7", "8", "9", "a", "b", "c", "d", "e", "f"}

\* s consists of n lowercase hex digits
IsHex(s, n) == Len(s) = n /\ \A i \in 1..n : SubSeq(s, i, i) \in HexDigits

\* k is a raw shortId and holds the mapping of that shortId
C29_ForwardEntry(store, k) ==
    /\ IsHex(k, 8) /\ IsMapping(store[k])
    /\ MappingAt(store, k).shortId = k

\* k is 'url:' followed by the digest of a URL and holds a raw shortId
C29_ReverseEntry(store, k) ==
    /\ IsReverseKey(k) /\ IsHex(SubSeq(k, 5, Len(k)), 32)
    /\ \E u \in UrlStrings : k = reverseKey(u)
    /\ ~IsMapping(store[k]) /\ IsHex(store[k].str, 8)

C29_KeyLayout ==
    /\ \A store \in {redis, kv} :
          /\ \A k \in DOMAIN store :
                C29_ForwardEntry(store, k) # C29_ReverseEntry(store, k)
          /\ ForwardKeys(store) \cap ReverseKeys(store) = {}
    /\ \A r \in Requests : \A i \in 1..Len(reqs[r].wrote) :
          \/ reqs[r].wrote[i] = reqs[r].shortId[1] /\ IsHex(reqs[r].wrote[i], 8)
          \/ reqs[r].wrote[i] = reverseKey(reqs[r].body[1])
    /\ \A s \in generateShortId : ~IsReverseKey(s)

\* a store holds a forward key and a reverse key written by shorten, and a
\* reverse key that only the script can have written: the shorten of its
\* URL failed at the reverse set
C29_Witness ==
    /\ mig.runs = 1
    /\ \E a, b \in Requests :
          /\ reqs[a].body # reqs[b].body
          /\ Returned(a) /\ Len(reqs[a].wrote) = 2
          /\ reqs[b].status = 500 /\ Len(reqs[b].wrote) = 1
          /\ reverseKey(reqs[b].body[1]) \in DOMAIN StoreOf(b)
          /\ reverseKey(reqs[a].body[1]) \in DOMAIN StoreOf(a)

(***************************************************************************)
(* The admin endpoints: adminAuth and the routes it guards                 *)
(* (index.ts:80-144, 341-368).                                             *)
(***************************************************************************)
\* the paths of the two guarded routes
AdminPaths == {"/api/stats", "/admin"}

\* values of the Authorization header: a missing header, an empty one,
\* another scheme, the scheme in lower case, no token, two spaces before
\* the token, and Basic tokens (one followed by a further word)
AuthHeaders ==
    {<<>>} \cup
    {<<h>> : h \in {"", "Bearer YWRtaW46YWRtaW4xMjM=", "basic YWRtaW46YWRtaW4xMjM=",
                    "Basic ", "Basic  YWRtaW46YWRtaW4xMjM=",
                    "Basic YWRtaW46YWRtaW4xMjM=", "Basic YWRtaW46d3Jvbmc=",
                    "Basic cm9vdDpzMzpjcmV0", "Basic cm9vdDpzMw==",
                    "Basic YWRtaW4=", "Basic cm9vdDphZG1pbjEyMw==",
                    "Basic OmFkbWluMTIz", "Basic YWRtaW46YWRtaW4xMjM= x"}}

\* process.env.ADMIN_USERNAME and process.env.ADMIN_PASSWORD: unset (<<>>)
\* or set to the empty string, or both set
AdminEnvs ==
    {[user |-> <<>>, pass |-> <<"">>],
     [user |-> <<"root">>, pass |-> <<"s3:cret">>]}

\* Buffer.from(text, 'base64').toString('utf-8')
Base64Decode(text) ==
    CASE text = "YWRtaW46YWRtaW4xMjM=" -> "admin:admin123"
      [] text = "YWRtaW46d3Jvbmc="     -> "admin:wrong"
      [] text = "cm9vdDpzMzpjcmV0"     -> "root:s3:cret"
      [] text = "cm9vdDpzMw=="         -> "root:s3"
      [] text = "YWRtaW4="             -> "admin"
      [] text = "cm9vdDphZG1pbjEyMw==" -> "root:admin123"
      [] text = "OmFkbWluMTIz"         -> ":admin123"

\* s.indexOf(c) for a one-character c, counted from 1; 0 when c is not in s
IndexOf(s, c) ==
    IF \E i \in 1..Len(s) : SubSeq(s, i, i) = c
    THEN CHOOSE i \in 1..Len(s) :
            /\ SubSeq(s, i, i) = c
            /\ \A j \in 1..(i - 1) : SubSeq(s, j, j) # c
    ELSE 0

\* s.startsWith(prefix)
StartsWith(s, prefix) == Len(s) >= Len(prefix) /\ SubSeq(s, 1, Len(prefix)) = prefix

\* s.split(' ')[1]: the text between the first space and the next one, <<>>
\* (undefined) when s has no space
SplitSecond(s) ==
    LET i == IndexOf(s, " ")
        rest == SubSeq(s, i + 1, Len(s))
        j == IndexOf(rest, " ") IN
    IF i = 0 THEN <<>>
    ELSE IF j = 0 THEN <<rest>> ELSE <<SubSeq(rest, 1, j - 1)>>

\* process.env.NAME || fallback
OrDefault(value, fallback) == IF value = <<>> \/ value[1] = "" THEN fallback ELSE value[1]

\* a request to a guarded route, before adminAuth runs
NewAdminRequest(path, header, env) ==
    [op |-> "admin", path |-> path, header |-> header, env |-> env, pc |-> "start",
     status |-> 0, body |-> <<>>, wwwAuthenticate |-> FALSE,
     responses |-> 0, nexts |-> 0, handled |-> FALSE]

\* res.setHeader('WWW-Authenticate', ...) and the 401 of a failure branch:
\* JSON with the branch's message for an /api/ path, 'Unauthorized' otherwise
Deny(req, message) ==
    [req EXCEPT !.pc = "done", !.status = 401, !.wwwAuthenticate = TRUE,
                !.responses = @ + 1,
                !.body = IF StartsWith(req.path, "/api/") THEN <<"json", message>>
                         ELSE <<"text", "Unauthorized">>]

\* next(): the request is handed to the route's handler
CallNext(req) == [req EXCEPT !.pc = "handler", !.nexts = @ + 1]

\* adminAuth with the password comparison lost
adminAuthUsernameOnly(req) ==
    LET adminUsername == OrDefault(req.env.user, "admin") IN
    IF req.header = <<>> \/ req.header[1] = "" \/ ~StartsWith(req.header[1], "Basic ")
    THEN Deny(req, "Authentication required")
    ELSE LET base64Credentials == SplitSecond(req.header[1]) IN
         IF base64Credentials = <<>> \/ base64Credentials[1] = ""
         THEN Deny(req, "Invalid authorization header")
         ELSE LET credentials == Base64Decode(base64Credentials[1])
                  colonIndex == IndexOf(credentials, ":") IN
              IF colonIndex = 0 THEN Deny(req, "Invalid credentials format")
              ELSE IF SubSeq(credentials, 1, colonIndex - 1) = adminUsername
                   THEN CallNext(req)
                   ELSE Deny(req, "Invalid credentials")

\* adminAuth(req, res, next)
adminAuth(req) ==
    LET adminUsername == OrDefault(req.env.user, "admin")
        adminPassword == OrDefault(req.env.pass, "admin123") IN
    IF req.header = <<>> \/ req.header[1] = "" \/ ~StartsWith(req.header[1], "Basic ")
    THEN Deny(req, "Authentication required")
    ELSE LET base64Credentials == SplitSecond(req.header[1]) IN
         IF base64Credentials = <<>> \/ base64Credentials[1] = ""
         THEN Deny(req, "Invalid authorization header")
         ELSE LET credentials == Base64Decode(base64Credentials[1])
                  colonIndex == IndexOf(credentials, ":")
                  username == SubSeq(credentials, 1, colonIndex - 1)
                  password == SubSeq(credentials, colonIndex + 1, Len(credentials)) IN
              IF colonIndex = 0 THEN Deny(req, "Invalid credentials format")
              ELSE IF username = adminUsername /\ password = adminPassword
                   THEN CallNext(req)
                   ELSE Deny(req, "Invalid credentials")

\* GET /api/stats or GET /admin arrives: the middleware runs to its 401 or
\* to next() without a suspension
AdminReceive(path, header, env) ==
    /\ Len(reqs) < MaxReqs
    /\ reqs' = Append(reqs, adminAuth(NewAdminRequest(path, header, env)))
    /\ UNCHANGED <<redisClient, redis, kv, mig>>

\* the route's handler runs and answers: the statistics or the page (200),
\* or its own error response (500)
AdminHandler(r, status) ==
    /\ reqs[r].op = "admin" /\ reqs[r].pc = "handler"
    /\ reqs' = [reqs EXCEPT ![r] = [@ EXCEPT !.pc = "done", !.status = status,
                                             !.handled = TRUE, !.responses = @ + 1]]
    /\ UNCHANGED <<redisClient, redis, kv, mig>>

NextAdmin ==
    \/ \E path \in AdminPaths, header \in AuthHeaders, env \in AdminEnvs :
          AdminReceive(path, header, env)
    \/ \E r \in 1..Len(reqs), status \in {200, 500} : AdminHandler(r, status)

SpecAdmin == Init /\ [][NextAdmin]_vars

(***************************************************************************)
(* C30.  The handlers of GET /api/stats and GET /admin run only for a      *)
(* request carrying HTTP Basic credentials whose username and password     *)
(* both equal the configured ones; every other request receives exactly    *)
(* one 401 response and the protected handler is never invoked.            *)
(***************************************************************************)
\* the username and password a header carries as Basic credentials, <<>>
\* when it carries none (RFC 7617: user-id ":" password, base64-encoded)
C30_Carried(header) ==
    CASE header = <<"Basic YWRtaW46YWRtaW4xMjM=">>   -> <<"admin", "admin123">>
      [] header = <<"Basic YWRtaW46YWRtaW4xMjM= x">> -> <<"admin", "admin123">>
      [] header = <<"Basic YWRtaW46d3Jvbmc=">>       -> <<"admin", "wrong">>
      [] header = <<"Basic cm9vdDpzMzpjcmV0">>       -> <<"root", "s3:cret">>
      [] header = <<"Basic cm9vdDpzMw==">>           -> <<"root", "s3">>
      [] header = <<"Basic cm9vdDphZG1pbjEyMw==">>   -> <<"root", "admin123">>
      [] header = <<"Basic OmFkbWluMTIz">>           -> <<"", "admin123">>
      [] OTHER -> <<>>

\* the credentials in force under an environment: the documented defaults
\* unless both variables are set
C30_Configured(env) ==
    IF env.user = <<"root">> THEN <<"root", "s3:cret">> ELSE <<"admin", "admin123">>

C30_Authorized(r) == C30_Carried(reqs[r].header) = C30_Configured(reqs[r].env)

C30_OnlyAuthorizedReachHandler ==
    \A r \in Requests :
        /\ reqs[r].nexts + reqs[r].responses <= 1 \/ reqs[r].handled
        /\ reqs[r].nexts <= 1 /\ reqs[r].responses <= 1
        /\ (reqs[r].nexts = 1 \/ reqs[r].handled) => C30_Authorized(r)
        /\ ~C30_Authorized(r) =>
              /\ reqs[r].pc = "done" /\ reqs[r].status = 401
              /\ reqs[r].responses = 1 /\ reqs[r].wwwAuthenticate
              /\ reqs[r].nexts = 0 /\ ~reqs[r].handled

\* the statistics were served to a request with the configured credentials
\* and the page was refused to a request with a wrong password
C30_Witness ==
    \E a, b \in Requests :
        /\ reqs[a].path = "/api/stats" /\ reqs[a].handled /\ reqs[a].status = 200
        /\ reqs[a].env.user = <<"root">>
        /\ reqs[b].path = "/admin" /\ reqs[b].status = 401
        /\ reqs[b].header = <<"Basic YWRtaW46d3Jvbmc=">>

(***************************************************************************)
(* GET /api/stats behind adminAuth: getStorageConfig (index.ts:55-75) and  *)
(* getStats (api/stats.ts:8-156).                                          *)
(***************************************************************************)
\* the handler's locals when it is entered, before the probe of
\* getStorageConfig
NewStats(cursorType) ==
    [op |-> "stats", pc |-> IF redisClient = "client" THEN "pingRedis" ELSE "pingKv",
     useRedis |-> FALSE, storageType |-> "unknown", totalUrls |-> 0,
     keys |-> <<>>, i |-> 0, mappings |-> <<>>,
     cursor |-> <<"number", 0>>, scanOrder |-> <<>>, cursorType |-> cursorType,
     status |-> 0, success |-> FALSE]

\* res.json({ success: true, stats }) / res.status(500).json({ success: false })
StatsRespond(req, status) ==
    [req EXCEPT !.pc = "done", !.status = status, !.success = (status = 200)]

\* the for loop over the collected keys: the next get is issued, or the
\* loop is over and the statistics are sent
StatsNextKey(req) ==
    IF req.i < Len(req.keys) THEN [req EXCEPT !.i = @ + 1, !.pc = "get"]
    ELSE StatsRespond(req, 200)

\* statistics requests served
StatsReqs == 1

\* GET /api/stats passes adminAuth: the handler awaits getStorageConfig,
\* which issues the probe
StatsReceive(cursorType) ==
    /\ Len(reqs) < StatsReqs
    /\ reqs' = Append(reqs, NewStats(cursorType))
    /\ UNCHANGED <<redisClient, redis, kv, mig>>

\* the probe of getStorageConfig is answered or throws; a throw is caught
\* there and yields no client at all, the 'in-memory' branch of getStats
StatsPingReply(r, reply) ==
    /\ reqs[r].op = "stats" /\ reqs[r].pc \in {"pingRedis", "pingKv"}
    /\ \/ /\ reply = "ok"
          /\ reqs' = [reqs EXCEPT ![r] =
                IF @.pc = "pingRedis"
                THEN [@ EXCEPT !.useRedis = TRUE, !.storageType = "redis", !.pc = "keys"]
                ELSE [@ EXCEPT !.storageType = "vercel-kv", !.pc = "scan"]]
       \/ /\ reply = "throw"
          /\ reqs' = [reqs EXCEPT ![r] =
                StatsRespond([@ EXCEPT !.storageType = "in-memory"], 200)]
    /\ UNCHANGED <<redisClient, redis, kv, mig>>

\* StatsKeysReply counting every key the store lists, reverse keys too
StatsKeysReplyCountAll(r, reply) ==
    /\ reqs[r].op = "stats" /\ reqs[r].pc = "keys"
    /\ \/ /\ reply = "ok"
          /\ \E order \in Orders(DOMAIN redis) :
                reqs' = [reqs EXCEPT ![r] =
                    StatsNextKey([@ EXCEPT !.keys = FilterKeys(order),
                                           !.totalUrls = Len(order)])]
       \/ /\ reply = "throw"
          /\ reqs' = [reqs EXCEPT ![r] = StatsRespond(@, 500)]
    /\ UNCHANGED <<redisClient, redis, kv, mig>>

\* await redisClient.keys('*') is answered, the keys are filtered and
\* counted, or it throws (the outer catch answers 500)
StatsKeysReply(r, reply) ==
    /\ reqs[r].op = "stats" /\ reqs[r].pc = "keys"
    /\ \/ /\ reply = "ok"
          /\ \E order \in Orders(DOMAIN redis) :
                reqs' = [reqs EXCEPT ![r] =
                    StatsNextKey([@ EXCEPT !.keys = FilterKeys(order),
                                           !.totalUrls = Len(FilterKeys(order))])]
       \/ /\ reply = "throw"
          /\ reqs' = [reqs EXCEPT ![r] = StatsRespond(@, 500)]
    /\ UNCHANGED <<redisClient, redis, kv, mig>>

\* one round of the while (true) loop: await kvInstance.scan(cursor) is
\* answered, the batch is filtered and appended, and the loop is left when
\* String(cursor) === '0' (totalUrls = allKeys.length follows); a scan that
\* throws is caught by the try around the whole branch: the statistics are
\* sent as they are
StatsScanReply(r, reply) ==
    /\ reqs[r].op = "stats" /\ reqs[r].pc = "scan"
    /\ \/ /\ reply = "ok"
          /\ \E page \in ScanPages(reqs[r]) :
                LET req == [reqs[r] EXCEPT !.cursor = page.cursor,
                                           !.scanOrder = page.order,
                                           !.keys = @ \o FilterKeys(page.keys)] IN
                reqs' = [reqs EXCEPT ![r] =
                    IF IsZeroCursor(page.cursor)
                    THEN StatsNextKey([req EXCEPT !.totalUrls = Len(req.keys)])
                    ELSE req]
       \/ /\ reply = "throw"
          /\ reqs' = [reqs EXCEPT ![r] = StatsRespond(@, 200)]
    /\ UNCHANGED <<redisClient, redis, kv, mig>>

\* await client.get(shortId) is answered (a value with an originalUrl is
\* pushed to mappings) or throws: in the Redis branch the get is outside the
\* inner try and the outer catch answers 500, in the KV branch the key is
\* skipped
StatsGetReply(r, reply) ==
    /\ reqs[r].op = "stats" /\ reqs[r].pc = "get"
    /\ LET req == reqs[r]
           key == req.keys[req.i]
           store == IF req.useRedis THEN redis ELSE kv IN
       \/ /\ reply = "ok"
          /\ reqs' = [reqs EXCEPT ![r] =
                StatsNextKey(IF MigOriginalUrl(store, key, req.useRedis) = <<>> THEN req
                             ELSE [req EXCEPT !.mappings = Append(@, key)])]
       \/ /\ reply = "throw"
          /\ reqs' = [reqs EXCEPT ![r] =
                IF req.useRedis THEN StatsRespond(req, 500) ELSE StatsNextKey(req)]
    /\ UNCHANGED <<redisClient, redis, kv, mig>>

\* stores as the service, the script and other writers leave them: with
\* and without reverse entries, with and without an entry that is no mapping
StatsStores(useRedis) == SeedStores(useRedis) \cup CorruptStores(useRedis)

\* the statistics are requested of a service whose store holds mappings
InitStats ==
    /\ redisClient \in {"null", "client"}
    /\ redis \in IF redisClient = "client" THEN StatsStores(TRUE) ELSE {EmptyStore}
    /\ kv \in IF redisClient = "null" THEN StatsStores(FALSE) ELSE {EmptyStore}
    /\ reqs = <<>>
    /\ mig = MigIdle("number")

NextStats ==
    \/ \E cursorType \in {"number", "string"} : StatsReceive(cursorType)
    \/ \E r \in 1..Len(reqs), reply \in Replies : StatsPingReply(r, reply)
    \/ \E r \in 1..Len(reqs), reply \in Replies : StatsKeysReply(r, reply)
    \/ \E r \in 1..Len(reqs), reply \in Replies : StatsScanReply(r, reply)
    \/ \E r \in 1..Len(reqs), reply \in Replies : StatsGetReply(r, reply)

SpecStats == InitStats /\ [][NextStats]_vars

(***************************************************************************)
(* C31.  The totalUrls value reported by the stats endpoint equals the     *)
(* number of unique valid forward URL mappings in the selected store:      *)
(* reverse-index keys are not counted, and no mapping is counted more than *)
(* once.                                                                   *)
(***************************************************************************)
\* a statistics request answered with success from a store
C31_Reported(r) ==
    /\ reqs[r].op = "stats" /\ reqs[r].pc = "done" /\ reqs[r].status = 200
    /\ reqs[r].storageType \in {"redis", "vercel-kv"}

C31_TotalUrlsCountsMappings ==
    \A r \in Requests :
        C31_Reported(r) =>
            reqs[r].totalUrls =
                Cardinality(ForwardKeys(IF reqs[r].useRedis THEN redis ELSE kv))

(***************************************************************************)
(* The health check (api/health handler, reached by GET /api/health,       *)
(* index.ts:336-338).                                                      *)
(***************************************************************************)
\* request methods
Methods == {"GET", "POST"}

\* `test-${crypto.randomBytes(4).toString('hex')}`
TestIds == {"test-" \o s : s \in ShortIds}

\* testUrl outside production
TestUrl == "http://localhost:3000"

\* the health object and the handler's locals when it is entered; failed
\* records which awaited steps threw or did not give the expected result
NewHealth(method, testId) ==
    [op |-> "health", method |-> method, testId |-> testId, pc |-> "start",
     useRedis |-> FALSE, createdAt |-> Now,
     health |-> [status |-> "healthy", storage |-> "available",
                 shortUrlCreated |-> FALSE, shortUrlRetrieved |-> FALSE,
                 redirectWorks |-> FALSE],
     failed |-> {}, status |-> 0]

\* the value written under testId: JSON text in Redis, the object in KV
TestValue(req) ==
    IF req.useRedis THEN JSONstringify(UrlMapping(TestUrl, req.testId, req.createdAt))
    ELSE [obj |-> UrlMapping(TestUrl, req.testId, req.createdAt)]

\* return res.status(statusCode).json(health)
HealthRespond(req, status) == [req EXCEPT !.pc = "done", !.status = status]

\* step 6: the status code follows health.status
HealthReturn(req) ==
    HealthRespond(req, IF req.health.status = "healthy" THEN 200 ELSE 500)

\* the handler is entered: 405 for another method than GET, otherwise the
\* first await of step 1 (connect with a Redis URL, the KV probe without)
HealthReceive(method, testId) ==
    /\ Len(reqs) < MaxReqs
    /\ reqs' = Append(reqs,
          IF method # "GET" THEN HealthRespond(NewHealth(method, testId), 405)
          ELSE [NewHealth(method, testId) EXCEPT
                   !.pc = IF redisClient = "client" THEN "connect" ELSE "pingKv"])
    /\ UNCHANGED <<redisClient, redis, kv, mig>>

\* step 1: await connect() / await ping() is answered or throws; a throw
\* marks the storage unavailable and returns 500
HealthProbeReply(r, reply) ==
    /\ reqs[r].op = "health" /\ reqs[r].pc \in {"connect", "pingRedis", "pingKv"}
    /\ \/ /\ reply = "ok"
          /\ reqs' = [reqs EXCEPT ![r] =
                IF @.pc = "connect" THEN [@ EXCEPT !.pc = "pingRedis"]
                ELSE [@ EXCEPT !.useRedis = (reqs[r].pc = "pingRedis"), !.pc = "set"]]
       \/ /\ reply = "throw"
          /\ reqs' = [reqs EXCEPT ![r] =
                HealthRespond([@ EXCEPT !.health.storage = "unavailable",
                                        !.health.status = "unhealthy",
                                        !.failed = @ \cup {"probe"}], 500)]
    /\ UNCHANGED <<redisClient, redis, kv, mig>>

\* step 3: await set(testId, mapping) is answered or throws; a throw
\* returns 500
HealthSetReply(r, reply) ==
    /\ reqs[r].op = "health" /\ reqs[r].pc = "set"
    /\ \/ /\ reply = "ok"
          /\ SetOn(r, reqs[r].testId, TestValue(reqs[r]))
          /\ reqs' = [reqs EXCEPT ![r] =
                [@ EXCEPT !.health.shortUrlCreated = TRUE, !.pc = "get"]]
       \/ /\ reply = "throw"
          /\ reqs' = [reqs EXCEPT ![r] =
                HealthRespond([@ EXCEPT !.health.status = "unhealthy",
                                        !.failed = @ \cup {"write"}], 500)]
          /\ UNCHANGED <<redis, kv>>
    /\ UNCHANGED <<redisClient, mig>>

\* step 4: await get(testId) is answered or throws; a throw, no value or
\* another originalUrl marks the check unhealthy and goes on to the cleanup
HealthGetReply(r, reply) ==
    /\ reqs[r].op = "health" /\ reqs[r].pc = "get"
    /\ LET store == StoreOf(r)
           matches == /\ reply = "ok" /\ reqs[r].testId \in DOMAIN store
                      /\ MigOriginalUrl(store, reqs[r].testId, reqs[r].useRedis)
                             = <<TestUrl>> IN
       reqs' = [reqs EXCEPT ![r] =
          IF matches THEN [@ EXCEPT !.health.shortUrlRetrieved = TRUE, !.pc = "fetch"]
          ELSE [@ EXCEPT !.health.storage = "unavailable",
                         !.health.status = "unhealthy",
                         !.failed = @ \cup {"read"}, !.pc = "del"]]
    /\ UNCHANGED <<redisClient, redis, kv, mig>>

\* step 4, the redirect test: await fetch(redirectUrl) gives the expected
\* redirect, or fails (an error, another status, another location); the
\* failure is recorded in errors only
HealthFetchReply(r, reply) ==
    /\ reqs[r].op = "health" /\ reqs[r].pc = "fetch"
    /\ reqs' = [reqs EXCEPT ![r] =
          IF reply = "ok" THEN [@ EXCEPT !.health.redirectWorks = TRUE, !.pc = "del"]
          ELSE [@ EXCEPT !.failed = @ \cup {"redirect"}, !.pc = "del"]]
    /\ UNCHANGED <<redisClient, redis, kv, mig>>

\* the store without a key
Del(store, key) == [k \in DOMAIN store \ {key} |-> store[k]]

\* CleanupFailed marking the service unhealthy
CleanupFailedUnhealthy(req) ==
    HealthReturn([req EXCEPT !.failed = @ \cup {"cleanup"},
                             !.health.status = "unhealthy"])

\* the cleanup has thrown: the error is recorded and the status stays
CleanupFailed(req) == HealthReturn([req EXCEPT !.failed = @ \cup {"cleanup"}])

\* step 5: await del(testId) is answered (quit follows on Redis) or throws
HealthDelReply(r, reply) ==
    /\ reqs[r].op = "health" /\ reqs[r].pc = "del"
    /\ \/ /\ reply = "ok"
          /\ IF reqs[r].useRedis
             THEN redis' = Del(redis, reqs[r].testId) /\ UNCHANGED kv
             ELSE kv' = Del(kv, reqs[r].testId) /\ UNCHANGED redis
          /\ reqs' = [reqs EXCEPT ![r] =
                IF @.useRedis THEN [@ EXCEPT !.pc = "quit"] ELSE HealthReturn(@)]
       \/ /\ reply = "throw"
          /\ reqs' = [reqs EXCEPT ![r] = CleanupFailed(@)]
          /\ UNCHANGED <<redis, kv>>
    /\ UNCHANGED <<redisClient, mig>>

\* step 5: await redisClient.quit() is answered or throws
HealthQuitReply(r, reply) ==
    /\ reqs[r].op = "health" /\ reqs[r].pc = "quit"
    /\ reqs' = [reqs EXCEPT ![r] =
          IF reply = "ok" THEN HealthReturn(@) ELSE CleanupFailed(@)]
    /\ UNCHANGED <<redisClient, redis, kv, mig>>

NextHealth ==
    \/ \E method \in Methods, testId \in TestIds : HealthReceive(method, testId)
    \/ \E r \in 1..Len(reqs), reply \in Replies : HealthProbeReply(r, reply)
    \/ \E r \in 1..Len(reqs), reply \in Replies : HealthSetReply(r, reply)
    \/ \E r \in 1..Len(reqs), reply \in Replies : HealthGetReply(r, reply)
    \/ \E r \in 1..Len(reqs), reply \in Replies : HealthFetchReply(r, reply)
    \/ \E r \in 1..Len(reqs), reply \in Replies : HealthDelReply(r, reply)
    \/ \E r \in 1..Len(reqs), reply \in Replies : HealthQuitReply(r, reply)

SpecHealth == Init /\ [][NextHealth]_vars

(***************************************************************************)
(* C32.  The health check reports unhealthy (HTTP 500) exactly when the    *)
(* storage probe, the test-mapping write or the test-mapping read-back     *)
(* fails; a failed redirect test or a failed cleanup alone leaves the      *)
(* status healthy (HTTP 200).                                              *)
(***************************************************************************)
\* a GET health check that has been answered
C32_Answered(r) ==
    reqs[r].op = "health" /\ reqs[r].method = "GET" /\ reqs[r].pc = "done"

C32_UnhealthyIffStorageStepFailed ==
    \A r \in Requests :
        C32_Answered(r) =>
            /\ reqs[r].status \in {200, 500}
            /\ reqs[r].status = 500 <=> reqs[r].failed \cap {"probe", "write", "read"} # {}
            /\ reqs[r].status = 500 <=> reqs[r].health.status = "unhealthy"

\* one check answered 200 although its redirect test and its cleanup failed,
\* another answered 500 because its read-back failed
C32_Witness ==
    \E a, b \in Requests :
        /\ C32_Answered(a) /\ reqs[a].status = 200
        /\ reqs[a].failed = {"redirect", "cleanup"}
        /\ C32_Answered(b) /\ reqs[b].status = 500 /\ "read" \in reqs[b].failed

(***************************************************************************)
(* The earlier migrateVercelKvData (url-reverse-index.ts:304-351): the     *)
(* keys are collected by a do-while loop over SCAN.                        *)
(***************************************************************************)
\* keys the do-while loop has collected when the model stops following it
MaxCollected == 4

\* the shapes in which a client hands back a SCAN answer: the array
\* [cursor, keys] or an object with the fields cursor and keys
ScanShapes == {"array", "object"}

\* cursor !== 0: only the number 0 ends the loop
IsNumberZero(cursor) == cursor = <<"number", 0>>

\* one round of the do-while loop: await kvInstance.scan(cursor) is answered
\* or throws.  The round reads scanResult.cursor and scanResult.keys: of an
\* array both are undefined and keys.filter throws; a throw reaches the
\* outer catch, which rethrows.  Otherwise the filtered keys are
\* concatenated and the loop goes on while cursor !== 0
LegacyScanReply(reply, shape) ==
    /\ mig.pc = "scan" /\ Len(mig.keys) < MaxCollected
    /\ \/ /\ reply = "ok" /\ shape = "object"
          /\ \E page \in ScanPages(mig) :
                LET m == [mig EXCEPT !.cursor = page.cursor,
                                     !.scanOrder = page.order,
                                     !.keys = @ \o FilterKeys(page.keys)] IN
                mig' = IF IsNumberZero(page.cursor) THEN MigNextKey(m, kv) ELSE m
       \/ /\ reply = "ok" /\ shape = "array"
          /\ mig' = MigFinish(mig, kv, "failed")
       \/ /\ reply = "throw"
          /\ mig' = MigFinish([mig EXCEPT !.threw = TRUE], kv, "failed")
    /\ UNCHANGED <<redisClient, redis, kv, reqs>>

\* the script is run on a KV store that holds forward mappings only
InitLegacy ==
    /\ redisClient = "null"
    /\ redis = EmptyStore
    /\ kv \in {SeedStore(FALSE, fwd, [u \in SeedUrls |-> "-"]) :
                  fwd \in [ShortIds -> SeedUrls \cup {"-"}]}
    /\ reqs = <<>>
    /\ mig \in {MigIdle(t) : t \in {"number", "string"}}

NextLegacy ==
    \/ MigStart
    \/ \E reply \in Replies : MigPingReply(reply)
    \/ \E reply \in Replies, shape \in ScanShapes : LegacyScanReply(reply, shape)
    \/ \E reply \in Replies : MigGetReply(reply)
    \/ \E reply \in Replies : MigSetReply(reply)

SpecLegacy == InitLegacy /\ [][NextLegacy]_vars

(***************************************************************************)
(* C33.  The backfill scan loop terminates for every finite store: it      *)
(* stops as soon as the backend returns the zero cursor, whether that      *)
(* cursor arrives as the number 0 or as the string '0'.  Stated of one     *)
(* round: a round after which the loop issues a further scan did not       *)
(* receive the zero cursor.                                                *)
(***************************************************************************)
C33_StopsAtZeroCursor ==
    [][(mig.pc = "scan" /\ mig'.pc = "scan" /\ mig' # mig)
          => ~IsZeroCursor(mig'.cursor)]_vars

\* the migration script is run while health checks are served on the same
\* stores
NextUpkeep ==
    \/ NextHealth
    \/ mig.runs < LiveRuns /\ NextBackfill

SpecUpkeep == Init /\ [][NextUpkeep]_vars

(***************************************************************************)
(* C34.  In every reachable state, including between the two writes of a   *)
(* create, after a failed or crashed request, and during or after a        *)
(* backfill, every reverse entry url:h -> S points to a shortId S whose    *)
(* forward mapping exists and whose originalUrl hashes to h (no dangling   *)
(* or mismatched reverse entry).                                           *)
(***************************************************************************)
\* the reverse entry under k names a forward mapping whose URL hashes to k
C34_Backed(store, k) ==
    LET id == store[k].str IN
    /\ id \in DOMAIN store /\ IsMapping(store[id])
    /\ reverseKey(MappingAt(store, id).originalUrl) = k

C34_NoDanglingReverseEntry ==
    \A store \in {redis, kv} : \A k \in ReverseKeys(store) : C34_Backed(store, k)

(***************************************************************************)
(* C35.  shorten answers success with isExisting=false only after both the *)
(* forward-key set and the reverse-key set of that request have succeeded; *)
(* if either set fails the caller receives an error result (HTTP 500) and  *)
(* no shortId.                                                             *)
(***************************************************************************)
\* both sets of request r have succeeded, the forward set first
C35_BothSetsSucceeded(r) ==
    reqs[r].wrote = <<reqs[r].shortId[1], reverseKey(reqs[r].body[1])>>

\* request r has ended after issuing a set that did not succeed
C35_SetFailed(r) ==
    reqs[r].pc = "done" /\ reqs[r].sets > Len(reqs[r].wrote)

C35_SuccessOnlyAfterBothSets ==
    \A r \in Requests :
        reqs[r].op = "shorten" =>
            /\ (reqs[r].status = 200 /\ reqs[r].respIsExisting = "false") =>
                  /\ reqs[r].sets = 2 /\ C35_BothSetsSucceeded(r)
                  /\ reqs[r].respShortId = reqs[r].shortId
            /\ C35_SetFailed(r) =>
                  reqs[r].status = 500 /\ reqs[r].respShortId = <<>>

\* one create answered after both of its sets, one refused after its
\* forward set failed and one after its reverse set failed
C35_Witness ==
    /\ \E r \in Requests :
          /\ reqs[r].op = "shorten" /\ reqs[r].status = 200
          /\ reqs[r].respIsExisting = "false" /\ C35_BothSetsSucceeded(r)
    /\ \E r \in Requests :
          reqs[r].op = "shorten" /\ C35_SetFailed(r) /\ reqs[r].sets \in {1, 2}

(***************************************************************************)
(* C36.  Backfill writes only keys that start with 'url:': no step of a    *)
(* backfill run sets or deletes a key outside the reverse namespace, so    *)
(* every forward mapping in the store, its key and its value, is the same  *)
(* after the step as before it, and no key at all is removed.              *)
(***************************************************************************)
C36_OnlyReverseKeysWritten ==
    [][/\ \A k \in Changed(redis, redis') \cup Changed(kv, kv') : IsReverseKey(k)
       /\ DOMAIN redis \subseteq DOMAIN redis' /\ DOMAIN kv \subseteq DOMAIN kv'
       /\ \A k \in ForwardKeys(MigStore) :
             /\ k \in ForwardKeys(IF mig.useRedis THEN redis' ELSE kv')
             /\ (IF mig.useRedis THEN redis' ELSE kv')[k] = MigStore[k]]_vars

\* a run over two forward mappings completed, it wrote reverse entries, and
\* the forward mappings of the store are those it started with
C36_Witness ==
    /\ mig.runs = 1 /\ mig.pc = "idle" /\ mig.outcome[1] = "completed"
    /\ mig.after[1] # mig.before[1]
    /\ Cardinality(ForwardKeys(mig.before[1])) = 2
    /\ \A k \in ForwardKeys(mig.before[1]) : mig.after[1][k] = mig.before[1][k]
    /\ ReverseKeys(mig.after[1]) # ReverseKeys(mig.before[1])

(***************************************************************************)
(* C37.  Backfill does not change the shortId that shorten returns for a   *)
(* URL: if, when a run starts, url:hash(U) maps to a shortId S whose       *)
(* forward mapping has originalUrl U, then it maps to S when the run has   *)
(* ended, whichever other forward mappings for U the store holds.          *)
(***************************************************************************)
C37_CanonicalIdKept ==
    \A n \in 1..mig.runs :
        \A u \in UrlsOf(mig.before[n]) :
            Indexed(mig.before[n], u) =>
                /\ reverseKey(u) \in DOMAIN mig.after[n]
                /\ mig.after[n][reverseKey(u)] = mig.before[n][reverseKey(u)]

\* the same for the URLs that have one forward mapping only
C37_CanonicalIdKeptOfSingleMapping ==
    \A n \in 1..mig.runs :
        \A u \in UrlsOf(mig.before[n]) :
            (Indexed(mig.before[n], u) /\ Cardinality(IdsOf(mig.before[n], u)) = 1) =>
                /\ reverseKey(u) \in DOMAIN mig.after[n]
                /\ mig.after[n][reverseKey(u)] = mig.before[n][reverseKey(u)]

(***************************************************************************)
(* C38.  lookup called with a key of the reverse namespace (a shortId      *)
(* parameter that starts with 'url:') never yields a redirect: the raw     *)
(* shortId the reverse entry holds is not taken for a forward mapping, and *)
(* the request ends in NotFound (404) or in an error (500).                *)
(***************************************************************************)
C38_ReverseKeyNeverRedirects ==
    \A r \in Requests :
        (/\ reqs[r].op = "lookup" /\ reqs[r].pc = "done"
         /\ reqs[r].body # <<>> /\ IsReverseKey(reqs[r].body[1])) =>
            reqs[r].status \in {404, 500}

\* the same on the Redis service, where the raw shortId does not parse
C38_ReverseKeyNeverRedirectsOnRedis ==
    \A r \in Requests :
        (/\ reqs[r].op = "lookup" /\ reqs[r].pc = "done" /\ reqs[r].useRedis
         /\ reqs[r].body # <<>> /\ IsReverseKey(reqs[r].body[1])) =>
            reqs[r].status \in {404, 500}

(***************************************************************************)
(* The manual key collection of the KV backfill.                           *)
(***************************************************************************)
\* i.toString().padStart(4, '0') for some i of 0..9999
IsPossibleId(s) ==
    /\ Len(s) = 4
    /\ \A i \in 1..4 :
          SubSeq(s, i, i) \in {"0", "1", "2", "3", "4", "5", "6", "7", "8", "9"}

\* the ids the probing loop keeps: get(possibleId) returns a mapping that has
\* an originalUrl
ManualKeys(store) ==
    {id \in DOMAIN store :
        /\ IsPossibleId(id)
        /\ MigOriginalUrl(store, id, FALSE) \notin {<<>>, <<"">>}}

(***************************************************************************)
(* C39.  In the Vercel KV backfill, when a scan call of the key retrieval  *)
(* fails with an error, the manual key collection is executed: the keys    *)
(* the run then goes over are those the probing of the ids 0000 to 9999    *)
(* finds, and not what the scan had collected before it failed.            *)
(***************************************************************************)
C39_ScanFailureFallsBack ==
    [][(mig.pc = "scan" /\ ~mig.threw /\ mig'.threw) =>
          {mig'.keys[i] : i \in 1..Len(mig'.keys)} = ManualKeys(kv)]_vars

\* a scan call failed after a page had been collected, and the run goes on
\* over the keys of that page
C39_ScanFailedAfterFirstPage ==
    /\ ~mig.useRedis /\ mig.threw /\ mig.pc = "get" /\ mig.i = 1
    /\ Len(mig.keys) = 1 /\ ~IsZeroCursor(mig.cursor)
====
